---- MODULE Spec2Model ----
(***************************************************************************)
(* Model of the batch experiment orchestrator (create_batch_experiments):  *)
(* createBatchExperiments, the per-unit provisioning it fans out, the      *)
(* completion poller waitForExperimentCompletion, the export loop and the  *)
(* incremental checkpoint; and of the participant's conversation replay    *)
(* view (ConversationReplayParticipantView).                               *)
(*                                                                         *)
(* The specifications share the variables:                                 *)
(*   Spec        main and the scheduler (createBatchExperiments); a poller *)
(*               is one in-flight call per unit that ends by returning     *)
(*               true, returning false or rejecting;                       *)
(*   SpecPoller  one call of waitForExperimentCompletion, sample by        *)
(*               sample, with its clock;                                   *)
(*   SpecEnum    the filters and the enumeration alone;                    *)
(*   SpecExport  one window whose export requests are answered with every  *)
(*               body of ExportBodies, and the dialogue written from it;   *)
(*   SpecScript  the sequential script, experiment after experiment;       *)
(*   SpecLive    the runs of Spec in which every call returns, with        *)
(*               fairness;                                                 *)
(*   SpecWindows the window loop under any concurrency budget;             *)
(*   SpecReplay  the conversation replay view of the participant.          *)
(***************************************************************************)
EXTENDS Integers, Sequences, FiniteSets, TLC

(***************************************************************************)
(* Bounds of the model.                                                    *)
(***************************************************************************)
NumBehaviors == 2        \* behaviours loaded from FACILITATOR_BEHAVIORS
NumGroupSizes == 2       \* group sizes taken from [2, 3, 4, 5, 6]
MaxConcurrentBound == 2  \* configured budgets 1..MaxConcurrentBound (0: none)
PollIntervalTicks == 1   \* config.pollIntervalMs, in clock ticks
MaxPolls == 20           \* config.maxWaitTimeMs is MaxPolls poll intervals
MaxFetchTicks == 1       \* a poll request takes 0..MaxFetchTicks ticks
NumScriptBehaviors == 1  \* behaviours the sequential script loops over
MaxNegativeBudget == 2   \* --max-concurrent from -MaxNegativeBudget on
MaxWindows == 6          \* windows followed when the loop index does not advance
NumMessages == 2         \* messages of the replayed conversation
MaxTimers == 4           \* timers the replay view sets in one run
MaxReplays == 1          \* times the participant replays the conversation

(***************************************************************************)
(* Program constants.                                                      *)
(***************************************************************************)
DefaultMaxConcurrent == 3
StabilityThreshold == 15
NumBasePersonas == 6

Undefined == "undefined"
NA == "N/A"

\* JavaScript truthiness of a string-valued field
Truthy(v) == v # Undefined /\ v # ""

\* obj.f of an object that may lack the field
Field(obj, f) == IF f \in DOMAIN obj THEN obj[f] ELSE Undefined

Min(a, b) == IF a < b THEN a ELSE b

RECURSIVE SeqSum(_)
SeqSum(s) == IF s = <<>> THEN 0 ELSE Head(s) + SeqSum(Tail(s))

RECURSIVE FlatMap(_, _)
FlatMap(F(_), s) == IF s = <<>> THEN <<>> ELSE F(Head(s)) \o FlatMap(F, Tail(s))

RECURSIVE Filter(_, _)
Filter(P(_), s) ==
  IF s = <<>> THEN <<>>
  ELSE (IF P(Head(s)) THEN <<Head(s)>> ELSE <<>>) \o Filter(P, Tail(s))

Max(a, b) == IF a > b THEN a ELSE b

\* the relative index of Array.prototype.slice: a negative index counts from
\* the end, and the result is clamped to 0..length
RelativeIndex(x, len) == IF x < 0 THEN Max(len + x, 0) ELSE Min(x, len)

\* Array.prototype.slice(from, to) (0-based, to exclusive): the elements from
\* the relative index of from up to the one of to, none when that is not after
SliceBounds(s, from, to) ==
  <<RelativeIndex(from, Len(s)), RelativeIndex(to, Len(s))>>

Slice(s, from, to) ==
  LET b == SliceBounds(s, from, to)
  IN IF b[1] < b[2] THEN SubSeq(s, b[1] + 1, b[2]) ELSE <<>>

AllBehaviorNames ==
  <<"silent", "short_responses", "clarifying_questions",
    "direct_fast_consensus", "explanatory">>

FACILITATOR_BEHAVIORS == SubSeq(AllBehaviorNames, 1, NumBehaviors)

FullGroupSizes == [k \in 1..NumGroupSizes |-> k + 1]

VARIABLES
  config,        \* BatchConfig of the run
  pc,            \* where createBatchExperiments is
  allExperiments,\* the enumerated specs
  i,             \* window loop index
  batch,         \* the current window
  prov,          \* per unit of the window: the provisioning call in flight
  batchSetups,   \* per unit of the window: its setup result, or Pending
  poll,          \* per unit of the window: its poller
  j,             \* export loop position (1-based index into batchSetups)
  exporting,     \* TRUE while the export call of unit j is in flight
  results,       \* the accumulated result list
  resultsFile,   \* content of config.outputPath
  dialogueFile,  \* content of dialoguePath
  writes,        \* number of writes of config.outputPath so far
  failedCall,    \* history: per enumerated spec, the call that failed ("none")
  served,        \* history: per enumerated spec, how its export call ended ("none")
  okCalls,       \* history: per enumerated spec, provisioning calls that succeeded
  reordered,     \* history: a unit settled while an earlier unit of its window had not
  log,           \* history: the remote calls issued, pollers and windows started
  exportBody,    \* history: the body the last export request was answered with
  p_pc,          \* poller: position
  elapsed,       \* poller: Date.now() - startTime
  lastMessageCount,
  stableCount,
  trailRun,      \* history: length of the trailing run of equal successful samples
  trailVal,      \* history: the value of that run
  nSamples,      \* history: successful samples so far
  everFailed,    \* history: some sample failed (connection error or non-2xx)
  everRepeat,    \* history: some successful sample equalled its predecessor
  everPositive,  \* history: some successful sample was positive
  zerosBefore,   \* history: every sample before the trailing run reported 0
  failedAt,      \* history: the stability counter when the last failed sample failed
  script,        \* the sequential script: its position, its results, its clock
  view           \* the conversation replay view and what it has in flight

schedVars ==
  <<config, pc, allExperiments, i, batch, prov, batchSetups, poll, j, exporting,
    results, resultsFile, dialogueFile, writes, failedCall, served, okCalls, reordered,
    log, exportBody>>

pollerVars ==
  <<p_pc, elapsed, lastMessageCount, stableCount, trailRun, trailVal, nSamples,
    everFailed, everRepeat, everPositive, zerosBefore, failedAt>>

vars == <<schedVars, pollerVars, script, view>>


(***************************************************************************)
(* Configurations the runs are started with.                               *)
(***************************************************************************)
BaseConfigs ==
  [maxConcurrent : 0..MaxConcurrentBound, waitForCompletion : BOOLEAN,
   outputPath : {Undefined, "./batch_results.json"}, testMode : {FALSE},
   behaviorFilter : {Undefined}, excludeBehavior : {<<>>}, scenarios : {<<>>},
   apiKey : {"key"}, baseUrl : {"url"}, firebaseConfig : {TRUE}, scenariosFile : {FALSE}]

FilterConfigs ==
  [maxConcurrent : {0}, waitForCompletion : {FALSE},
   outputPath : {"./batch_results.json"}, testMode : BOOLEAN,
   behaviorFilter : {Undefined, AllBehaviorNames[2], "no_such_behavior"},
   excludeBehavior : {<<>>, <<AllBehaviorNames[1]>>, FACILITATOR_BEHAVIORS},
   scenarios : {<<>>},
   apiKey : {"key"}, baseUrl : {"url"}, firebaseConfig : {TRUE}, scenariosFile : {FALSE}]

\* scenarios as loadScenarios returns them (JSON.parse of the file, unvalidated):
\* participant_count is a field of its own beside the participants
ScenarioOf(type, count, names) ==
  [scenario_type |-> type, participant_count |-> count, participants |-> names]

Solo == ScenarioOf("Decide on a restaurant", 1, <<"Ana">>)
Pair == ScenarioOf("Plan a trip", 2, <<"Ana", "Ben">>)
PairAgain == ScenarioOf("Pick a movie", 2, <<"Cy", "Di">>)
Miscounted == ScenarioOf("Plan a trip", 3, <<"Ana">>)

\* scenario mode: one behaviour (test mode) times the scenarios of the file
ScenarioConfigs ==
  [maxConcurrent : {0}, waitForCompletion : {FALSE},
   outputPath : {"./batch_results.json"}, testMode : {TRUE},
   behaviorFilter : {Undefined}, excludeBehavior : {<<>>},
   scenarios : {<<Solo>>, <<Solo, Pair>>, <<Miscounted>>},
   apiKey : {"key"}, baseUrl : {"url"}, firebaseConfig : {TRUE}, scenariosFile : {TRUE}]

\* what main is started with: credentials present, empty or missing, the
\* firebase config file there or not, a scenarios file that holds no scenario
SetupConfigs ==
  [maxConcurrent : {0}, waitForCompletion : {FALSE},
   outputPath : {"./batch_results.json"}, testMode : {TRUE},
   behaviorFilter : {Undefined}, excludeBehavior : {<<>>}, scenarios : {<<>>},
   apiKey : {Undefined, "", "key"}, baseUrl : {Undefined, "url"},
   firebaseConfig : BOOLEAN, scenariosFile : BOOLEAN]

\* an exclude list that names a behaviour FACILITATOR_BEHAVIORS does not have
UnknownExcludeConfigs ==
  [maxConcurrent : {0}, waitForCompletion : {FALSE},
   outputPath : {"./batch_results.json"}, testMode : {TRUE},
   behaviorFilter : {Undefined},
   excludeBehavior : {<<"no_such_behavior">>, <<"no_such_behavior", AllBehaviorNames[2]>>},
   scenarios : {<<>>},
   apiKey : {"key"}, baseUrl : {"url"}, firebaseConfig : {TRUE}, scenariosFile : {FALSE}]

\* --output with a path that has no '.json' in it
PlainOutputConfigs ==
  [maxConcurrent : {0}, waitForCompletion : {FALSE},
   outputPath : {"./results.txt"}, testMode : {TRUE},
   behaviorFilter : {Undefined}, excludeBehavior : {<<>>}, scenarios : {<<>>},
   apiKey : {"key"}, baseUrl : {"url"}, firebaseConfig : {TRUE}, scenariosFile : {FALSE}]

Configs ==
  BaseConfigs \cup FilterConfigs \cup ScenarioConfigs \cup SetupConfigs
  \cup UnknownExcludeConfigs \cup PlainOutputConfigs

\* configurations for the enumeration alone
EnumConfigs ==
  [maxConcurrent : {0}, waitForCompletion : {FALSE},
   outputPath : {"./batch_results.json"}, testMode : BOOLEAN,
   behaviorFilter : {Undefined, AllBehaviorNames[2], "no_such_behavior"},
   excludeBehavior : {<<>>, <<AllBehaviorNames[1]>>, FACILITATOR_BEHAVIORS},
   scenarios : {<<>>, <<Solo>>, <<Solo, Pair>>, <<Pair, Solo>>, <<Pair, PairAgain>>,
                <<Solo, Pair, Miscounted>>},
   apiKey : {"key"}, baseUrl : {"url"}, firebaseConfig : {TRUE}, scenariosFile : {FALSE}]

(***************************************************************************)
(* Enumeration (createBatchExperiments, before the window loop).           *)
(***************************************************************************)
\* behaviours after testMode, behaviorFilter and excludeBehavior;
\* [ok |-> FALSE] when a filter makes the function return []
FilterBehaviors(cfg) ==
  LET b0 == IF cfg.testMode THEN <<FACILITATOR_BEHAVIORS[1]>> ELSE FACILITATOR_BEHAVIORS
      IsNamed(b) == b = cfg.behaviorFilter
      filtered == Filter(IsNamed, FACILITATOR_BEHAVIORS)
      b1 == IF Truthy(cfg.behaviorFilter) THEN filtered ELSE b0
      Kept(b) == \A x \in 1..Len(cfg.excludeBehavior) : cfg.excludeBehavior[x] # b
      b2 == IF cfg.excludeBehavior # <<>> THEN Filter(Kept, b1) ELSE b1
  IN IF Truthy(cfg.behaviorFilter) /\ filtered = <<>> THEN [ok |-> FALSE, behaviors |-> <<>>]
     ELSE IF cfg.excludeBehavior # <<>> /\ b2 = <<>> THEN [ok |-> FALSE, behaviors |-> <<>>]
     ELSE [ok |-> TRUE, behaviors |-> b2]

GroupSizesOf(cfg) == IF cfg.testMode THEN <<2>> ELSE FullGroupSizes

\* mutant of Enumerate: the scenarios or group sizes are the outer loop
EnumerateSizesOuter(cfg, behaviors) ==
  LET inner == IF Len(cfg.scenarios) > 0 THEN Len(cfg.scenarios)
               ELSE Len(IF cfg.testMode THEN <<2>> ELSE FullGroupSizes)
      PerInner(x) ==
        [y \in 1..Len(behaviors) |->
           IF Len(cfg.scenarios) > 0
           THEN [behavior |-> behaviors[y], groupSize |-> cfg.scenarios[x].participant_count,
                 scenario |-> cfg.scenarios[x]]
           ELSE [behavior |-> behaviors[y],
                 groupSize |-> (IF cfg.testMode THEN <<2>> ELSE FullGroupSizes)[x]]]
  IN FlatMap(PerInner, [x \in 1..inner |-> x])

\* allExperiments: behaviours outer, scenarios or group sizes inner
Enumerate(cfg, behaviors) ==
  LET PerBehavior(b) ==
        IF Len(cfg.scenarios) > 0
        THEN [x \in 1..Len(cfg.scenarios) |->
                [behavior |-> b, groupSize |-> cfg.scenarios[x].participant_count,
                 scenario |-> cfg.scenarios[x]]]
        ELSE [x \in 1..Len(GroupSizesOf(cfg)) |->
                [behavior |-> b, groupSize |-> GroupSizesOf(cfg)[x]]]
  IN FlatMap(PerBehavior, behaviors)

\* totalExperiments = behaviors.length * groupSizes.length, in both modes
TotalExperiments(cfg, behaviors) == Len(behaviors) * Len(GroupSizesOf(cfg))

\* mutant of MaxConcurrentOf: without a configured budget one unit runs at a time
MaxConcurrentOfOneWhenNone(cfg) ==
  IF cfg.maxConcurrent = 0 THEN 1 ELSE cfg.maxConcurrent

\* maxConcurrent = config.maxConcurrent || 3 (0 stands for a budget that is
\* not configured: undefined, NaN and 0 are all falsy)
MaxConcurrentOf(cfg) ==
  IF cfg.maxConcurrent = 0 THEN DefaultMaxConcurrent ELSE cfg.maxConcurrent

\* generateParticipantPersonas(count).length / scenarioToPersonas(scenario).length
NumPersonas(spec) ==
  IF "scenario" \in DOMAIN spec THEN Len(spec.scenario.participants)
  ELSE Min(spec.groupSize, NumBasePersonas)

(***************************************************************************)
(* Remote side: ids the server assigns, error messages, export content.    *)
(***************************************************************************)
ExpId(n) == "exp" \o ToString(n)
CohortId(n) == "cohort" \o ToString(n)

\* the message of the Error thrown by the failing provisioning call
ErrorMessage(call) ==
  CASE call = "createExperiment" -> "Failed to create experiment: 500"
    [] call = "createCohort" -> "Failed to create cohort: 500"
    [] OTHER -> "Failed to create participant: 500"

\* chat messages as the export carries them: the text under 'message', the
\* time as an object with seconds, the sender's profile; time and profile may
\* be missing
Hi ==
  [id |-> "m1", message |-> "hi", timestamp |-> [seconds |-> 3725],
   profile |-> [name |-> "Gemini"], type |-> "participant", agentId |-> "a1"]
Anon == [id |-> "m2", message |-> "ok", type |-> "participant", agentId |-> ""]
Elsewhere ==
  [id |-> "m9", message |-> "elsewhere", timestamp |-> [seconds |-> 0],
   profile |-> [name |-> ""], type |-> "participant", agentId |-> "a9"]

\* a chatMap is an object keyed by stage id; Object.entries yields its entries
\* in insertion order: a sequence of <<stageId, messages>>
ThreadA == <<"chat_a", <<Hi, Anon>>>>
ThreadB == <<"chat_b", <<Anon>>>>
ThreadC == <<"chat_c", <<>>>>
ChatMaps ==
  {<<>>, <<ThreadA>>, <<ThreadB>>, <<ThreadC>>, <<ThreadA, ThreadB>>, <<ThreadB, ThreadA>>}

\* another cohort of the same experiment, with a thread of its own
OtherCohort == "cohort_other"
OtherCohortData == [chatMap |-> <<<<"chat_a", <<Elsewhere>>>>>>]

\* the entry of the unit's cohort: without a chatMap, or with one
OwnCohortData == {[metadata |-> "m"]} \cup {[chatMap |-> m] : m \in ChatMaps}

CohortMaps(cohortId) ==
  {OtherCohort :> OtherCohortData}
  \cup {cohortId :> d : d \in OwnCohortData}
  \cup {(cohortId :> d) @@ (OtherCohort :> OtherCohortData) : d \in OwnCohortData}

\* the bodies an export request for a unit with cohort cohortId can be
\* answered with: without cohortMap, or with one
ExportBodies(cohortId) ==
  {[metadata |-> "m"]} \cup {[cohortMap |-> m] : m \in CohortMaps(cohortId)}

\* the two bodies the runs of the scheduler are answered with: nothing for the
\* unit's cohort, or one thread of one message
RunBodies(cohortId) ==
  {[cohortMap |-> (OtherCohort :> OtherCohortData)],
   [cohortMap |-> (cohortId :> [chatMap |-> <<ThreadB>>]) @@ (OtherCohort :> OtherCohortData)]}

\* messages.map((msg) => ({id, text: msg.message, timestamp:
\* msg.timestamp?.seconds || 0, profile: msg.profile, messageType: msg.type,
\* agentId})); a missing profile stays missing
ConvertMessage(msg) ==
  LET seconds == IF "timestamp" \in DOMAIN msg THEN msg.timestamp.seconds ELSE 0
      base == [id |-> msg.id, text |-> msg.message, timestamp |-> seconds,
               messageType |-> msg.type, agentId |-> msg.agentId]
  IN IF "profile" \in DOMAIN msg THEN base @@ [profile |-> msg.profile] ELSE base

\* the records built from the entries of one chatMap
ThreadRecords(chatMap, experimentId, cohortId) ==
  [x \in 1..Len(chatMap) |->
     [experimentId |-> experimentId, cohortId |-> cohortId, stageId |-> chatMap[x][1],
      messages |-> [y \in 1..Len(chatMap[x][2]) |-> ConvertMessage(chatMap[x][2][y])]]]

\* mutant of exportExperimentConversations: when the unit's cohort has no
\* entry, the threads of some cohort that has one are taken
exportExperimentConversationsOfAnyCohort(data, experimentId, cohortId) ==
  IF "cohortMap" \notin DOMAIN data THEN <<>>
  ELSE LET c == IF cohortId \in DOMAIN data.cohortMap THEN cohortId
                ELSE CHOOSE x \in DOMAIN data.cohortMap : TRUE
       IN IF "chatMap" \notin DOMAIN data.cohortMap[c] THEN <<>>
          ELSE ThreadRecords(data.cohortMap[c].chatMap, experimentId, cohortId)

\* exportExperimentConversations once the response is ok and parsed into data:
\* cohortData = data.cohortMap?.[cohortId]; if (cohortData?.chatMap) one record
\* per entry of the chatMap
exportExperimentConversations(data, experimentId, cohortId) ==
  IF "cohortMap" \notin DOMAIN data THEN <<>>
  ELSE IF cohortId \notin DOMAIN data.cohortMap THEN <<>>
  ELSE IF "chatMap" \notin DOMAIN data.cohortMap[cohortId] THEN <<>>
  ELSE ThreadRecords(data.cohortMap[cohortId].chatMap, experimentId, cohortId)

\* what exportExperimentConversations returns for (experimentId, cohortId) in
\* the runs of the scheduler
ExportReturns(experimentId, cohortId) ==
  {exportExperimentConversations(b, experimentId, cohortId) : b \in RunBodies(cohortId)}

\* history: no export request has been answered
NoBody == [answered |-> FALSE]

Pending == [pending |-> TRUE]
Idle == [call |-> "none", added |-> 0, experimentId |-> Undefined, cohortId |-> Undefined]

(***************************************************************************)
(* generateSimpleDialogue                                                  *)
(***************************************************************************)
\* new Date(seconds * 1000).toLocaleTimeString('en-US', {hour12: false, ...}):
\* hours, minutes and seconds of the day (in UTC)
TimeOfDay(seconds) ==
  <<(seconds \div 3600) % 24, (seconds \div 60) % 60, seconds % 60>>

\* msg.profile?.name || 'Unknown'
SenderName(msg) ==
  IF "profile" \in DOMAIN msg /\ Truthy(Field(msg.profile, "name"))
  THEN msg.profile.name ELSE "Unknown"

\* `[${timeStr}] ${name}: ${msg.text}` for every message of the conversation
ConversationLines(convo) ==
  [x \in 1..Len(convo.messages) |->
     [kind |-> "message", time |-> TimeOfDay(convo.messages[x].timestamp),
      name |-> SenderName(convo.messages[x]), text |-> convo.messages[x].text]]

\* String.prototype.toUpperCase on the behaviour names
ToUpperCase(name) ==
  CASE name = "silent" -> "SILENT"
    [] name = "short_responses" -> "SHORT_RESPONSES"
    [] name = "clarifying_questions" -> "CLARIFYING_QUESTIONS"
    [] name = "direct_fast_consensus" -> "DIRECT_FAST_CONSENSUS"
    [] name = "explanatory" -> "EXPLANATORY"
    [] OTHER -> name

\* mutant of SkippedInDialogue: only the failed units are skipped
SkippedInDialogueOnError(r) == r.status # "success"

\* if (result.status !== 'success' || !result.conversations?.length) continue
SkippedInDialogue(r) ==
  r.status # "success" \/ Len(Field(r, "conversations")) = 0

\* the lines pushed for one result
DialogueBlock(r) ==
  IF SkippedInDialogue(r) THEN <<>>
  ELSE <<[kind |-> "header", behavior |-> ToUpperCase(r.facilitatorBehavior),
          groupSize |-> r.groupSize],
         [kind |-> "experimentId", id |-> r.experimentId],
         [kind |-> "blank"]>>
       \o FlatMap(ConversationLines, r.conversations)
       \o <<[kind |-> "blank"], [kind |-> "blank"]>>

\* the lines, which the function joins with '\n'
generateSimpleDialogue(rs) == FlatMap(DialogueBlock, rs)


(***************************************************************************)
(* createBatchExperiments                                                  *)
(***************************************************************************)
N == Len(allExperiments)
Units == 1..Len(batch)

\* mutant of WindowOf: the slice takes one unit more than the budget
WindowOfOneMore(all, from, c) == Slice(all, from, from + c + 1)

\* batch = allExperiments.slice(i, i + maxConcurrent)
WindowOf(all, from, c) == Slice(all, from, from + c)

\* mutant of StoreSetup: setups are collected in the order the units settle
StoreSetupInArrivalOrder(setups, k, rec) ==
  LET free == {x \in 1..Len(setups) : setups[x] = [pending |-> TRUE]}
      slot == CHOOSE x \in free : \A y \in free : x <= y
  IN [setups EXCEPT ![slot] = rec]

\* Promise.all over batch.map: the k-th promise's value is the k-th element
StoreSetup(setups, k, rec) == [setups EXCEPT ![k] = rec]

\* mutant of IsSuccessfulSetup: every setup counts as successful
IsSuccessfulSetupAlways(s) == TRUE

\* successfulSetups = batchSetups.filter((s) => s.experimentId && s.cohortId)
IsSuccessfulSetup(s) ==
  Truthy(Field(s, "experimentId")) /\ Truthy(Field(s, "cohortId"))

\* mutant of IsErrorSetup: no setup is taken for a failed one
IsErrorSetupNever(setup) == FALSE

\* if (setup.error) in the export loop
IsErrorSetup(setup) == Truthy(Field(setup, "error"))

\* mutant of AllSettled: the join resolves as soon as one unit has failed
AllSettledOrOneFailed(setups) ==
  \/ \A k \in 1..Len(setups) : setups[k] # [pending |-> TRUE]
  \/ \E k \in 1..Len(setups) : "error" \in DOMAIN setups[k]

\* mutant of AllSettled: the join does not wait for the last unit
AllSettledButOne(setups) ==
  Cardinality({k \in 1..Len(setups) : setups[k] = [pending |-> TRUE]}) <= 1

\* Promise.all over the provisioning promises, none of which rejects: it
\* resolves when every one has resolved
AllSettled(setups) == \A k \in 1..Len(setups) : setups[k] # [pending |-> TRUE]

\* mutant of ExportArgs: every export call is made with the ids of the first setup
ExportArgsOfFirst(setups, x) ==
  [experimentId |-> Field(setups[1], "experimentId"),
   cohortId |-> Field(setups[1], "cohortId")]

\* the arguments of the export call of the x-th setup of the window
ExportArgs(setups, x) ==
  [experimentId |-> Field(setups[x], "experimentId"),
   cohortId |-> Field(setups[x], "cohortId")]

ErrorResult(setup) ==
  [facilitatorBehavior |-> setup.behavior, groupSize |-> setup.groupSize,
   experimentId |-> NA, cohortId |-> NA, status |-> "error", error |-> setup.error]

\* mutant of SuccessResult: a unit whose export gave nothing is reported as an error
SuccessResultByExport(setup, conversations) ==
  [facilitatorBehavior |-> setup.behavior, groupSize |-> setup.groupSize,
   experimentId |-> Field(setup, "experimentId"), cohortId |-> Field(setup, "cohortId"),
   status |-> IF conversations = <<>> THEN "error" ELSE "success",
   conversations |-> conversations]

SuccessResult(setup, conversations) ==
  [facilitatorBehavior |-> setup.behavior, groupSize |-> setup.groupSize,
   experimentId |-> Field(setup, "experimentId"), cohortId |-> Field(setup, "cohortId"),
   status |-> "success", conversations |-> conversations]

\* mutant of ExportLoopSetups: a unit whose poller timed out is turned into a
\* failed unit
ExportLoopSetupsStabilised(setups, outcomes) ==
  [k \in 1..Len(setups) |->
     IF outcomes[k] = "false"
     THEN [behavior |-> setups[k].behavior, groupSize |-> setups[k].groupSize,
           scenario |-> setups[k].scenario, error |-> "timed out"]
     ELSE setups[k]]

\* the setups the export loop runs over once the pollers have returned with
\* outcomes: the values of the pollers are discarded
ExportLoopSetups(setups, outcomes) == setups

SetupOk(spec, experimentId, cohortId) ==
  [behavior |-> spec.behavior, groupSize |-> spec.groupSize,
   scenario |-> Field(spec, "scenario"),
   experimentId |-> experimentId, cohortId |-> cohortId]

\* mutant of SetupError: the setup of a failed unit also carries ids
SetupErrorWithIds(spec, message) ==
  [behavior |-> spec.behavior, groupSize |-> spec.groupSize,
   scenario |-> Field(spec, "scenario"), error |-> message,
   experimentId |-> "exp", cohortId |-> "cohort"]

\* the catch block: return {behavior, groupSize, scenario, error: errorMessage}
SetupError(spec, message) ==
  [behavior |-> spec.behavior, groupSize |-> spec.groupSize,
   scenario |-> Field(spec, "scenario"), error |-> message]

\* history: some unit before k in the window is still being provisioned
EarlierPending(k) == \E x \in 1..(k - 1) : prov[x].call # "none"

\* history of a run over n specs before anything was issued: per spec the
\* provisioning calls issued, the capacity its cohort was created with, the
\* pollers started and the export calls issued; the windows started; after a
\* crash, the specs whose work the results file does not hold; and the list
\* the last completed write of config.outputPath was called with
EmptyLog(n) ==
  [calls |-> [x \in 1..n |-> <<>>], capacity |-> [x \in 1..n |-> 0],
   polls |-> [x \in 1..n |-> 0], exports |-> [x \in 1..n |-> 0],
   windows |-> 0, lost |-> {}, written |-> <<>>]

\* createCohort(config, experiment.id, groupSize + 1)
CohortCapacity(spec) == spec.groupSize + 1

\* mutant of NextCall: the facilitator is added before the cohort is created
NextCallFacilitatorFirst(u, spec, n) ==
  CASE u.call = "createExperiment" ->
         [u EXCEPT !.call = "addFacilitator", !.experimentId = ExpId(n)]
    [] u.call = "addFacilitator" ->
         [u EXCEPT !.call = "createCohort"]
    [] u.call = "createCohort" ->
         [u EXCEPT !.call = IF NumPersonas(spec) > 0 THEN "addParticipant" ELSE "none",
                   !.cohortId = CohortId(n)]
    [] OTHER ->
         [u EXCEPT !.added = u.added + 1,
                   !.call = IF u.added + 1 < NumPersonas(spec)
                            THEN "addParticipant" ELSE "none"]

\* the body of the try block of one unit (the n-th spec), after the call
\* u.call returned: the call issued next, "none" when the setup is returned
NextCall(u, spec, n) ==
  CASE u.call = "createExperiment" ->
         [u EXCEPT !.call = "createCohort", !.experimentId = ExpId(n)]
    [] u.call = "createCohort" ->
         [u EXCEPT !.call = "addFacilitator", !.cohortId = CohortId(n)]
    [] u.call = "addFacilitator" ->
         [u EXCEPT !.call = IF NumPersonas(spec) > 0 THEN "addParticipant" ELSE "none"]
    [] OTHER ->
         [u EXCEPT !.added = u.added + 1,
                   !.call = IF u.added + 1 < NumPersonas(spec)
                            THEN "addParticipant" ELSE "none"]

\* nothing has run yet
Fresh ==
  /\ allExperiments = <<>>
  /\ i = 0
  /\ batch = <<>>
  /\ prov = <<>>
  /\ batchSetups = <<>>
  /\ poll = <<>>
  /\ j = 1
  /\ exporting = FALSE
  /\ results = <<>>
  /\ resultsFile = <<>>
  /\ dialogueFile = <<>>
  /\ writes = 0
  /\ failedCall = <<>>
  /\ served = <<>>
  /\ okCalls = <<>>
  /\ reordered = FALSE
  /\ log = EmptyLog(0)
  /\ exportBody = NoBody

\* createBatchExperiments is entered
Entered ==
  /\ pc = "start"
  /\ Fresh

\* a run with an output path is a run of the command: main builds the config
\* and always sets outputPath; without one, createBatchExperiments is called
\* with the config directly
SchedInit ==
  /\ config \in Configs
  /\ pc = (IF Truthy(config.outputPath) THEN "main" ELSE "start")
  /\ Fresh

\* filters and enumeration; a filter error returns []
Start ==
  /\ pc = "start"
  /\ LET fb == FilterBehaviors(config) IN
       IF fb.ok
       THEN /\ allExperiments' = Enumerate(config, fb.behaviors)
            /\ pc' = "loop"
       ELSE /\ allExperiments' = <<>>
            /\ pc' = "returned"
  /\ failedCall' = [n \in 1..Len(allExperiments') |-> "none"]
  /\ served' = [n \in 1..Len(allExperiments') |-> "none"]
  /\ okCalls' = [n \in 1..Len(allExperiments') |-> 0]
  /\ log' = EmptyLog(Len(allExperiments'))
  /\ UNCHANGED <<config, i, batch, prov, batchSetups, poll, j, exporting, results,
                 resultsFile, dialogueFile, writes, reordered, pollerVars, exportBody, script, view>>

\* loop test passes: slice the window and start every unit's first call
WindowStart ==
  /\ pc = "loop"
  /\ i < N
  /\ batch' = WindowOf(allExperiments, i, MaxConcurrentOf(config))
  /\ prov' = [k \in 1..Len(batch') |-> [Idle EXCEPT !.call = "createExperiment"]]
  /\ batchSetups' = [k \in 1..Len(batch') |-> Pending]
  /\ poll' = [k \in 1..Len(batch') |-> "idle"]
  /\ pc' = "provision"
  /\ log' = [log EXCEPT
               !.windows = @ + 1,
               !.calls = [n \in 1..N |->
                            IF n \in (i + 1)..(i + Len(batch'))
                            THEN Append(@[n], "createExperiment") ELSE @[n]]]
  /\ UNCHANGED <<config, allExperiments, i, j, exporting, results, resultsFile,
                 dialogueFile, writes, failedCall, served, okCalls, reordered, pollerVars, exportBody, script, view>>

\* results.filter((r) => r.status === wanted).length
StatusCount(rs, wanted) == Cardinality({x \in 1..Len(rs) : rs[x].status = wanted})

\* the summary printed after the window loop: Success: successCount/total,
\* Errors: errorCount/total
Summary(cfg, rs) ==
  [successCount |-> StatusCount(rs, "success"), errorCount |-> StatusCount(rs, "error"),
   totalExperiments |-> TotalExperiments(cfg, FilterBehaviors(cfg).behaviors)]

\* loop test fails: summary and return results
Finish ==
  /\ pc = "loop"
  /\ ~(i < N)
  /\ pc' = "returned"
  /\ UNCHANGED <<config, allExperiments, i, batch, prov, batchSetups, poll, j, exporting,
                 results, resultsFile, dialogueFile, writes, failedCall, served, okCalls, reordered, log, pollerVars, exportBody, script, view>>

\* the call unit k has in flight returns successfully; the unit issues its next
\* call, or returns its setup when no call is left
ProvisionOk(k) ==
  /\ pc = "provision"
  /\ k \in Units
  /\ prov[k].call # "none"
  /\ LET spec == batch[k]
         next == NextCall(prov[k], spec, i + k)
     IN /\ prov' = [prov EXCEPT ![k] = next]
        /\ log' = [log EXCEPT
                     !.calls[i + k] = IF next.call = "none" THEN @ ELSE Append(@, next.call),
                     !.capacity[i + k] = IF next.call = "createCohort"
                                         THEN CohortCapacity(spec) ELSE @]
        /\ batchSetups' =
             IF next.call = "none"
             THEN StoreSetup(batchSetups, k, SetupOk(spec, next.experimentId, next.cohortId))
             ELSE batchSetups
        /\ reordered' = (reordered \/ (next.call = "none" /\ EarlierPending(k)))
  /\ okCalls' = [okCalls EXCEPT ![i + k] = @ + 1]
  /\ UNCHANGED <<config, pc, allExperiments, i, batch, poll, j, exporting, results,
                 resultsFile, dialogueFile, writes, failedCall, served, pollerVars, exportBody, script, view>>

\* the call unit k has in flight fails: the catch block returns the error setup
ProvisionFail(k) ==
  /\ pc = "provision"
  /\ k \in Units
  /\ prov[k].call # "none"
  /\ prov' = [prov EXCEPT ![k].call = "none"]
  /\ batchSetups' =
       StoreSetup(batchSetups, k, SetupError(batch[k], ErrorMessage(prov[k].call)))
  /\ failedCall' = [failedCall EXCEPT ![i + k] = prov[k].call]
  /\ reordered' = (reordered \/ EarlierPending(k))
  /\ UNCHANGED <<config, pc, allExperiments, i, batch, poll, j, exporting, results,
                 resultsFile, dialogueFile, writes, served, okCalls, log, pollerVars, exportBody, script, view>>

\* Promise.all(batchSetups) resolves: start the pollers, or go on to the export loop
ProvisionJoin ==
  /\ pc = "provision"
  /\ AllSettled(batchSetups)
  /\ IF config.waitForCompletion /\ \E k \in Units : IsSuccessfulSetup(batchSetups[k])
     THEN /\ poll' = [k \in Units |->
                        IF IsSuccessfulSetup(batchSetups[k]) THEN "polling" ELSE "idle"]
          /\ log' = [log EXCEPT
                       !.polls = [n \in 1..N |->
                                    IF /\ n \in (i + 1)..(i + Len(batch))
                                       /\ IsSuccessfulSetup(batchSetups[n - i])
                                    THEN @[n] + 1 ELSE @[n]]]
          /\ pc' = "poll"
          /\ j' = j
     ELSE /\ poll' = poll
          /\ log' = log
          /\ pc' = "export"
          /\ j' = 1
  /\ UNCHANGED <<config, allExperiments, i, batch, prov, batchSetups, exporting, results,
                 resultsFile, dialogueFile, writes, failedCall, served, okCalls, reordered, pollerVars, exportBody, script, view>>


\* the poller of unit k returns (true: stabilised, false: timed out);
\* createBatchExperiments discards the value
PollReturn(k, r) ==
  /\ k \in Units
  /\ poll[k] = "polling"
  /\ poll' = [poll EXCEPT ![k] = r]
  /\ UNCHANGED <<config, pc, allExperiments, i, batch, prov, batchSetups, j, exporting,
                 results, resultsFile, dialogueFile, writes, failedCall, served, okCalls, reordered, log, pollerVars, exportBody, script, view>>

\* the poller of unit k rejects (PBodyUnreadable below): Promise.all rejects at
\* once and with it createBatchExperiments; the other pollers keep running
PollReject(k) ==
  /\ k \in Units
  /\ poll[k] = "polling"
  /\ poll' = [poll EXCEPT ![k] = "rejected"]
  /\ pc' = IF pc = "poll" THEN "rejected" ELSE pc
  /\ UNCHANGED <<config, allExperiments, i, batch, prov, batchSetups, j, exporting,
                 results, resultsFile, dialogueFile, writes, failedCall, served, okCalls, reordered, log, pollerVars, exportBody, script, view>>

\* mutant of AllReturned: the join resolves with the first poller that returns
AllReturnedOrFirst(outcomes) ==
  \/ \A k \in 1..Len(outcomes) : outcomes[k] \in {"idle", "true", "false"}
  \/ \E k \in 1..Len(outcomes) : outcomes[k] \in {"true", "false"}

\* Promise.all over the pollers: every poller that was started has returned
AllReturned(outcomes) ==
  \A k \in 1..Len(outcomes) : outcomes[k] \in {"idle", "true", "false"}

\* Promise.all over the pollers resolves
PollJoin ==
  /\ pc = "poll"
  /\ AllReturned(poll)
  /\ batchSetups' = ExportLoopSetups(batchSetups, poll)
  /\ pc' = "export"
  /\ j' = 1
  /\ UNCHANGED <<config, allExperiments, i, batch, prov, poll, exporting,
                 results, resultsFile, dialogueFile, writes, failedCall, served, okCalls, reordered, log, pollerVars, exportBody, script, view>>

\* mutant of PushResult: the new result is put in front of the list
PushResultFront(rs, r) == <<r>> \o rs

\* results.push(r)
PushResult(rs, r) == Append(rs, r)

\* export loop, next setup: an error setup is pushed at once, for any other
\* setup the export call is issued
ExportNext ==
  /\ pc = "export"
  /\ ~exporting
  /\ j <= Len(batchSetups)
  /\ IF IsErrorSetup(batchSetups[j])
     THEN /\ results' = PushResult(results, ErrorResult(batchSetups[j]))
          /\ j' = j + 1
          /\ exporting' = FALSE
          /\ log' = log
     ELSE /\ exporting' = TRUE
          /\ log' = [log EXCEPT !.exports[i + j] = @ + 1]
          /\ UNCHANGED <<results, j>>
  /\ UNCHANGED <<config, pc, allExperiments, i, batch, prov, batchSetups, poll,
                 resultsFile, dialogueFile, writes, failedCall, served, okCalls, reordered, pollerVars, exportBody, script, view>>

\* the export request is answered with one of the bodies for its cohort
\* (every body of ExportBodies, or the two of RunBodies): the call returns the
\* conversations built from it
ExportOkWith(every) ==
  /\ pc = "export"
  /\ exporting
  /\ LET a == ExportArgs(batchSetups, j) IN
       \E data \in (IF every THEN ExportBodies(a.cohortId) ELSE RunBodies(a.cohortId)) :
         /\ results' =
              PushResult(results,
                         SuccessResult(batchSetups[j],
                                       exportExperimentConversations(data, a.experimentId,
                                                                     a.cohortId)))
         /\ exportBody' = [answered |-> TRUE, unit |-> i + j, body |-> data]
         /\ served' = [served EXCEPT ![i + j] = "ok"]
  /\ j' = j + 1
  /\ exporting' = FALSE
  /\ UNCHANGED <<config, pc, allExperiments, i, batch, prov, batchSetups, poll,
                 resultsFile, dialogueFile, writes, failedCall, okCalls, reordered, log,
                 pollerVars, script, view>>

\* the export call returns its conversations
ExportOk == ExportOkWith(FALSE)

\* mutant of ExportFail: the unit whose export call threw is recorded as failed
ExportFailAsError ==
  /\ pc = "export"
  /\ exporting
  /\ results' = Append(results,
                   [facilitatorBehavior |-> batchSetups[j].behavior,
                    groupSize |-> batchSetups[j].groupSize,
                    experimentId |-> NA, cohortId |-> NA,
                    status |-> "error", error |-> "Export failed: 500"])
  /\ served' = [served EXCEPT ![i + j] = "failed"]
  /\ j' = j + 1
  /\ exporting' = FALSE
  /\ UNCHANGED <<config, pc, allExperiments, i, batch, prov, batchSetups, poll,
                 resultsFile, dialogueFile, writes, failedCall, okCalls, reordered, log, pollerVars, exportBody, script, view>>

\* the export call throws: caught and ignored, conversations stays []
ExportFail ==
  /\ pc = "export"
  /\ exporting
  /\ results' = PushResult(results, SuccessResult(batchSetups[j], <<>>))
  /\ served' = [served EXCEPT ![i + j] = "failed"]
  /\ j' = j + 1
  /\ exporting' = FALSE
  /\ UNCHANGED <<config, pc, allExperiments, i, batch, prov, batchSetups, poll,
                 resultsFile, dialogueFile, writes, failedCall, okCalls, reordered, log, pollerVars, exportBody, script, view>>

\* end of the export loop with an output path: fs.writeFileSync opens the
\* results file for writing, which truncates it, before it writes the new content
OpenResultsFile ==
  /\ pc = "export"
  /\ ~exporting
  /\ j > Len(batchSetups)
  /\ Truthy(config.outputPath)
  /\ resultsFile' = <<>>
  /\ pc' = "write"
  /\ UNCHANGED <<config, allExperiments, i, batch, prov, batchSetups, poll, j, exporting,
                 results, dialogueFile, writes, failedCall, served, okCalls, reordered, log,
                 pollerVars, exportBody, script, view>>

\* mutant of NextWindowIndex: the loop index advances by one unit
NextWindowIndexByOne(from, c) == from + 1

\* i += maxConcurrent
NextWindowIndex(from, c) == from + c

\* String.prototype.replace('.json', '_dialogues.txt') on the output paths of
\* the model: the first '.json' is replaced, a path without one is returned
\* as it is
ReplaceJson(path) ==
  CASE path = "./batch_results.json" -> "./batch_results_dialogues.txt"
    [] OTHER -> path

\* dialoguePath = config.outputPath?.replace('.json', '_dialogues.txt') ||
\* './batch_dialogues.txt'
DialoguePath(outputPath) ==
  IF Truthy(outputPath) THEN ReplaceJson(outputPath) ELSE "./batch_dialogues.txt"

\* the content of config.outputPath after writeFileSync(config.outputPath,
\* results) and writeFileSync(dialoguePath, dialogue): the second write
\* replaces the first when both paths name one file
ResultsFileAfter(outputPath, rs) ==
  IF DialoguePath(outputPath) = outputPath THEN generateSimpleDialogue(rs) ELSE rs

\* the incremental write completes (or there is no output path), then
\* i += maxConcurrent
Checkpoint ==
  /\ \/ pc = "write"
     \/ pc = "export" /\ ~exporting /\ j > Len(batchSetups) /\ ~Truthy(config.outputPath)
  /\ IF Truthy(config.outputPath)
     THEN /\ resultsFile' = ResultsFileAfter(config.outputPath, results)
          /\ dialogueFile' = generateSimpleDialogue(results)
          /\ writes' = writes + 1
          /\ log' = [log EXCEPT !.written = results]
     ELSE UNCHANGED <<resultsFile, dialogueFile, writes, log>>
  /\ i' = NextWindowIndex(i, MaxConcurrentOf(config))
  /\ pc' = "loop"
  /\ UNCHANGED <<config, allExperiments, batch, prov, batchSetups, poll, j, exporting,
                 results, failedCall, served, okCalls, reordered, pollerVars, exportBody,
                 script, view>>

\* mutant of MissingArgs: only the API key is required
MissingArgsKeyOnly(cfg) == ~Truthy(cfg.apiKey)

\* if (!apiKey || !baseUrl)
MissingArgs(cfg) == ~Truthy(cfg.apiKey) \/ ~Truthy(cfg.baseUrl)

\* main up to the call of createBatchExperiments: process.exit(1) when the API
\* key or the base URL is missing, when the firebase config file is not there,
\* or when the scenarios file leaves no scenario
MainStart ==
  /\ pc = "main"
  /\ pc' = IF \/ MissingArgs(config)
              \/ ~config.firebaseConfig
              \/ config.scenariosFile /\ Len(config.scenarios) = 0
           THEN "exit1" ELSE "start"
  /\ UNCHANGED <<config, allExperiments, i, batch, prov, batchSetups, poll, j, exporting,
                 results, resultsFile, dialogueFile, writes, failedCall, served, okCalls,
                 reordered, log, pollerVars, exportBody, script, view>>

\* main, after createBatchExperiments returned: fs.writeFileSync(outputPath, ...)
\* opens the results file, which truncates it
MainOpen ==
  /\ pc = "returned"
  /\ Truthy(config.outputPath)
  /\ resultsFile' = <<>>
  /\ pc' = "mainwrite"
  /\ UNCHANGED <<config, allExperiments, i, batch, prov, batchSetups, poll, j, exporting,
                 results, dialogueFile, writes, failedCall, served, okCalls, reordered, log,
                 pollerVars, exportBody, script, view>>

\* main: the results and the dialogue are written once more, then the summary
MainSave ==
  /\ pc = "mainwrite"
  /\ resultsFile' = ResultsFileAfter(config.outputPath, results)
  /\ dialogueFile' = generateSimpleDialogue(results)
  /\ writes' = writes + 1
  /\ log' = [log EXCEPT !.written = results]
  /\ pc' = "saved"
  /\ UNCHANGED <<config, allExperiments, i, batch, prov, batchSetups, poll, j, exporting,
                 results, failedCall, served, okCalls, reordered, pollerVars, exportBody,
                 script, view>>

\* the specs some call was issued for that have no result in the file
LostUnits ==
  {n \in 1..N : log.calls[n] # <<>> /\ n > Len(resultsFile)}

\* the process dies: what is in memory is gone, the files stay as they are
Crash ==
  /\ pc \notin {"crashed", "saved", "exit1", "off"}
  /\ pc' = "crashed"
  /\ i' = 0
  /\ batch' = <<>>
  /\ prov' = <<>>
  /\ batchSetups' = <<>>
  /\ poll' = <<>>
  /\ j' = 1
  /\ exporting' = FALSE
  /\ results' = <<>>
  /\ failedCall' = <<>>
  /\ served' = <<>>
  /\ okCalls' = <<>>
  /\ reordered' = FALSE
  /\ log' = [EmptyLog(0) EXCEPT !.lost = LostUnits]
  /\ exportBody' = NoBody
  /\ UNCHANGED <<config, allExperiments, resultsFile, dialogueFile, writes, pollerVars,
                 script, view>>

Next ==
  \/ MainStart
  \/ Start
  \/ WindowStart
  \/ Finish
  \/ \E k \in 1..Len(batch) : ProvisionOk(k)
  \/ \E k \in 1..Len(batch) : ProvisionFail(k)
  \/ ProvisionJoin
  \/ \E k \in 1..Len(batch) : \E r \in {"true", "false"} : PollReturn(k, r)
  \/ \E k \in 1..Len(batch) : PollReject(k)
  \/ PollJoin
  \/ ExportNext
  \/ ExportOk
  \/ ExportFail
  \/ OpenResultsFile
  \/ Checkpoint
  \/ MainOpen
  \/ MainSave
  \/ Crash

PollerOff ==
  /\ p_pc = "off"
  /\ elapsed = 0
  /\ lastMessageCount = 0
  /\ stableCount = 0
  /\ trailRun = 0
  /\ trailVal = 0
  /\ nSamples = 0
  /\ everFailed = FALSE
  /\ everRepeat = FALSE
  /\ everPositive = FALSE
  /\ zerosBefore = TRUE
  /\ failedAt = 0

\* the sequential script is not running
ScriptOff == script = [pc |-> "off"]

\* no conversation replay view exists
ViewOff == view = [phase |-> "off"]

Init == SchedInit /\ PollerOff /\ ScriptOff /\ ViewOff

Spec == Init /\ [][Next]_vars

\* the export and the dialogue: one window of two units in scenario mode, the
\* export requests answered with every body of ExportBodies
ExportConfig ==
  [maxConcurrent |-> 0, waitForCompletion |-> FALSE,
   outputPath |-> "./batch_results.json", testMode |-> TRUE,
   behaviorFilter |-> Undefined, excludeBehavior |-> <<>>,
   scenarios |-> <<Solo, Pair>>,
   apiKey |-> "key", baseUrl |-> "url", firebaseConfig |-> TRUE, scenariosFile |-> TRUE]

InitExport ==
  /\ config = ExportConfig
  /\ pc = "main"
  /\ Fresh
  /\ PollerOff
  /\ ScriptOff
  /\ ViewOff

ExportOkAny == ExportOkWith(TRUE)

NextExport ==
  \/ MainStart
  \/ Start
  \/ WindowStart
  \/ Finish
  \/ \E k \in 1..Len(batch) : ProvisionOk(k)
  \/ \E k \in 1..Len(batch) : ProvisionFail(k)
  \/ ProvisionJoin
  \/ ExportNext
  \/ ExportOkAny
  \/ ExportFail
  \/ OpenResultsFile
  \/ Checkpoint
  \/ MainOpen
  \/ MainSave

SpecExport == InitExport /\ [][NextExport]_vars

\* termination: the runs of the command in which every remote call returns
\* and the process is not killed
LiveConfigs ==
  [maxConcurrent : {0, 2}, waitForCompletion : BOOLEAN,
   outputPath : {"./batch_results.json"}, testMode : {FALSE},
   behaviorFilter : {Undefined}, excludeBehavior : {<<>>}, scenarios : {<<>>},
   apiKey : {"key"}, baseUrl : {"url"}, firebaseConfig : {TRUE}, scenariosFile : {FALSE}]

InitLive ==
  /\ config \in LiveConfigs
  /\ pc = "main"
  /\ Fresh
  /\ PollerOff
  /\ ScriptOff
  /\ ViewOff

NextLive ==
  \/ MainStart
  \/ Start
  \/ WindowStart
  \/ Finish
  \/ \E k \in 1..Len(batch) : ProvisionOk(k)
  \/ \E k \in 1..Len(batch) : ProvisionFail(k)
  \/ ProvisionJoin
  \/ \E k \in 1..Len(batch) : \E r \in {"true", "false"} : PollReturn(k, r)
  \/ \E k \in 1..Len(batch) : PollReject(k)
  \/ PollJoin
  \/ ExportNext
  \/ ExportOk
  \/ ExportFail
  \/ OpenResultsFile
  \/ Checkpoint
  \/ MainOpen
  \/ MainSave

\* every call in flight returns, with a response or with an error, every
\* poller ends (maxWaitTime is finite), and the driver takes its next step
SpecLive == InitLive /\ [][NextLive]_vars /\ WF_vars(NextLive)

\* the window loop under every --max-concurrent the command accepts: main
\* passes parseInt(...) on, whatever its sign
BudgetConfigs ==
  [maxConcurrent : (0 - MaxNegativeBudget)..MaxConcurrentBound,
   waitForCompletion : {FALSE},
   outputPath : {"./batch_results.json"}, testMode : BOOLEAN,
   behaviorFilter : {Undefined}, excludeBehavior : {<<>>}, scenarios : {<<>>},
   apiKey : {"key"}, baseUrl : {"url"}, firebaseConfig : {TRUE}, scenariosFile : {FALSE}]

InitWindows ==
  /\ config \in BudgetConfigs
  /\ pc = "main"
  /\ Fresh
  /\ PollerOff
  /\ ScriptOff
  /\ ViewOff

\* the loop is followed for MaxWindows windows
WindowStartBounded == log.windows < MaxWindows /\ WindowStart

NextWindows ==
  \/ MainStart
  \/ Start
  \/ WindowStartBounded
  \/ Finish
  \/ \E k \in 1..Len(batch) : ProvisionOk(k)
  \/ \E k \in 1..Len(batch) : ProvisionFail(k)
  \/ ProvisionJoin
  \/ ExportNext
  \/ ExportOk
  \/ ExportFail
  \/ OpenResultsFile
  \/ Checkpoint
  \/ MainOpen
  \/ MainSave

SpecWindows == InitWindows /\ [][NextWindows]_vars

\* the enumeration alone, over more configurations
InitEnum ==
  /\ config \in EnumConfigs
  /\ Entered
  /\ PollerOff
  /\ ScriptOff
  /\ ViewOff

NextEnum == Start

SpecEnum == InitEnum /\ [][NextEnum]_vars


(***************************************************************************)
(* waitForExperimentCompletion                                             *)
(***************************************************************************)
pollInterval == PollIntervalTicks
maxWaitTime == MaxPolls * PollIntervalTicks

\* bodies of 2xx poll responses: whether data.cohortMap has the cohort, and the
\* number of messages of each chat stage of its chatMap
PollBodies ==
  { [hasCohort |-> FALSE, chatMap |-> <<>>],
    [hasCohort |-> TRUE, chatMap |-> <<>>],
    [hasCohort |-> TRUE, chatMap |-> <<3>>],
    [hasCohort |-> TRUE, chatMap |-> <<3, 1>>] }

\* totalMessages of a response body
TotalMessages(data) == IF data.hasCohort THEN SeqSum(data.chatMap) ELSE 0

\* mutant of IsStableSample: the count need not be positive
IsStableSampleAnyCount(totalMessages, last) == totalMessages = last

\* the stability test of one successful sample
IsStableSample(totalMessages, last) == totalMessages > 0 /\ totalMessages = last

\* mutant of WithinMaxWait: the loop gives up one poll interval early
WithinMaxWaitEarly(e) == e < maxWaitTime - pollInterval

\* the loop test Date.now() - startTime < maxWaitTime
WithinMaxWait(e) == e < maxWaitTime

\* mutant of IsComplete: one more stable sample is asked for
IsCompleteLate(count) == count > StabilityThreshold

\* stableCount >= 15
IsComplete(count) == count >= StabilityThreshold

PollerInit ==
  /\ p_pc = "check"
  /\ elapsed = 0
  /\ lastMessageCount = 0
  /\ stableCount = 0
  /\ trailRun = 0
  /\ trailVal = 0
  /\ nSamples = 0
  /\ everFailed = FALSE
  /\ everRepeat = FALSE
  /\ everPositive = FALSE
  /\ zerosBefore = TRUE
  /\ failedAt = 0

\* while (Date.now() - startTime < maxWaitTime), and the timeout return
PCheck ==
  /\ p_pc = "check"
  /\ p_pc' = IF WithinMaxWait(elapsed) THEN "fetch" ELSE "false"
  /\ UNCHANGED <<elapsed, lastMessageCount, stableCount, trailRun, trailVal, nSamples,
                 everFailed, everRepeat, everPositive, zerosBefore, failedAt, schedVars,
                 script, view>>

\* fetch throws (connection error): caught, sleep, continue
PFetchError ==
  /\ p_pc = "fetch"
  /\ \E d \in 0..MaxFetchTicks : elapsed' = elapsed + d
  /\ p_pc' = "sleep"
  /\ everFailed' = TRUE
  /\ failedAt' = stableCount
  /\ UNCHANGED <<lastMessageCount, stableCount, trailRun, trailVal, nSamples,
                 everRepeat, everPositive, zerosBefore, schedVars, script, view>>

\* mutant of PNotOk: a response that is not ok breaks the run of stable samples
PNotOkBreaksRun ==
  /\ p_pc = "fetch"
  /\ \E d \in 0..MaxFetchTicks : elapsed' = elapsed + d
  /\ p_pc' = "sleep"
  /\ everFailed' = TRUE
  /\ failedAt' = stableCount
  /\ stableCount' = 0
  /\ UNCHANGED <<lastMessageCount, trailRun, trailVal, nSamples,
                 everRepeat, everPositive, zerosBefore, schedVars, script, view>>

\* the response is not ok: sleep, continue
PNotOk ==
  /\ p_pc = "fetch"
  /\ \E d \in 0..MaxFetchTicks : elapsed' = elapsed + d
  /\ p_pc' = "sleep"
  /\ everFailed' = TRUE
  /\ failedAt' = stableCount
  /\ UNCHANGED <<lastMessageCount, stableCount, trailRun, trailVal, nSamples,
                 everRepeat, everPositive, zerosBefore, schedVars, script, view>>

\* the response is ok but response.json() rejects: nothing catches it
PBodyUnreadable ==
  /\ p_pc = "fetch"
  /\ \E d \in 0..MaxFetchTicks : elapsed' = elapsed + d
  /\ p_pc' = "rejected"
  /\ UNCHANGED <<lastMessageCount, stableCount, trailRun, trailVal, nSamples,
                 everFailed, everRepeat, everPositive, zerosBefore, failedAt, schedVars,
                 script, view>>

\* a successful sample: count the messages, update the stability counter
PSample ==
  /\ p_pc = "fetch"
  /\ \E d \in 0..MaxFetchTicks : elapsed' = elapsed + d
  /\ \E data \in PollBodies :
       LET totalMessages == TotalMessages(data)
           stable == IsStableSample(totalMessages, lastMessageCount)
           count == IF stable THEN stableCount + 1 ELSE 0
           repeats == nSamples > 0 /\ totalMessages = trailVal
       IN /\ stableCount' = count
          /\ IF stable /\ IsComplete(count)
             THEN /\ p_pc' = "true"
                  /\ lastMessageCount' = lastMessageCount
             ELSE /\ p_pc' = "sleep"
                  /\ lastMessageCount' = totalMessages
          /\ trailRun' = IF repeats THEN trailRun + 1 ELSE 1
          /\ trailVal' = totalMessages
          /\ everRepeat' = (everRepeat \/ repeats)
          /\ everPositive' = (everPositive \/ totalMessages > 0)
          /\ zerosBefore' = IF repeats \/ nSamples = 0 THEN zerosBefore
                            ELSE zerosBefore /\ trailVal = 0
  /\ nSamples' = nSamples + 1
  /\ UNCHANGED <<everFailed, failedAt, schedVars, script, view>>

\* await setTimeout(pollInterval)
PSleep ==
  /\ p_pc = "sleep"
  /\ elapsed' = elapsed + pollInterval
  /\ p_pc' = "check"
  /\ UNCHANGED <<lastMessageCount, stableCount, trailRun, trailVal, nSamples,
                 everFailed, everRepeat, everPositive, zerosBefore, failedAt, schedVars,
                 script, view>>

SchedOff ==
  /\ config = [maxConcurrent |-> 0, waitForCompletion |-> TRUE, outputPath |-> Undefined,
               testMode |-> FALSE, behaviorFilter |-> Undefined,
               excludeBehavior |-> <<>>, scenarios |-> <<>>,
               apiKey |-> "key", baseUrl |-> "url", firebaseConfig |-> TRUE,
               scenariosFile |-> FALSE]
  /\ pc = "off"
  /\ allExperiments = <<>>
  /\ i = 0
  /\ batch = <<>>
  /\ prov = <<>>
  /\ batchSetups = <<>>
  /\ poll = <<>>
  /\ j = 1
  /\ exporting = FALSE
  /\ results = <<>>
  /\ resultsFile = <<>>
  /\ dialogueFile = <<>>
  /\ writes = 0
  /\ failedCall = <<>>
  /\ served = <<>>
  /\ okCalls = <<>>
  /\ reordered = FALSE
  /\ log = EmptyLog(0)
  /\ exportBody = NoBody

InitPoller == SchedOff /\ PollerInit /\ ScriptOff /\ ViewOff

NextPoller ==
  \/ PCheck
  \/ PFetchError
  \/ PNotOk
  \/ PBodyUnreadable
  \/ PSample
  \/ PSleep

SpecPoller == InitPoller /\ [][NextPoller]_vars


(***************************************************************************)
(* The sequential script (create_batch_experiments.ts before windows):     *)
(* createBatchExperiments creates the experiments one after the other.     *)
(***************************************************************************)
ScriptDelayMs == 1000

\* for (const groupSize of [1, 2, 3, 4, 5])
ScriptGroupSizes == <<1, 2, 3, 4, 5>>

\* the experiments in the order of the two loops: behaviours outer, sizes inner
ScriptExperiments ==
  LET PerBehavior(b) ==
        [x \in 1..Len(ScriptGroupSizes) |-> [behavior |-> b, groupSize |-> ScriptGroupSizes[x]]]
  IN FlatMap(PerBehavior, SubSeq(AllBehaviorNames, 1, NumScriptBehaviors))

ScriptInit ==
  script = [pc |-> "loop", n |-> 1, call |-> "none", added |-> 0, results |-> <<>>,
            waited |-> 0, gap |-> 0]

\* the loops take the next experiment and the try block issues its first call;
\* gap is the time the script has waited since the creation before ended
ScriptCreate ==
  /\ script.pc = "loop"
  /\ script.n <= Len(ScriptExperiments)
  /\ script' = [script EXCEPT !.pc = "creating", !.call = "createExperiment", !.added = 0,
                              !.gap = script.waited, !.waited = 0]
  /\ UNCHANGED <<schedVars, pollerVars, view>>

\* the call in flight returns: the next call is issued, or, after the last
\* participant, the success result is pushed and the delay is started
ScriptCallOk ==
  /\ script.pc = "creating"
  /\ LET e == ScriptExperiments[script.n] IN
       script' =
         CASE script.call = "createExperiment" -> [script EXCEPT !.call = "createCohort"]
           [] script.call = "createCohort" -> [script EXCEPT !.call = "addFacilitator"]
           [] script.call = "addFacilitator" \/ script.added + 1 < e.groupSize ->
                [script EXCEPT !.call = "addParticipant",
                               !.added = IF script.call = "addFacilitator" THEN 0 ELSE @ + 1]
           [] OTHER ->
                [script EXCEPT
                   !.call = "none", !.added = @ + 1, !.pc = "delay",
                   !.results = Append(@, [facilitatorBehavior |-> e.behavior,
                                          groupSize |-> e.groupSize,
                                          experimentId |-> ExpId(script.n),
                                          cohortId |-> CohortId(script.n),
                                          status |-> "success"])]
  /\ UNCHANGED <<schedVars, pollerVars, view>>

\* the call in flight throws: the catch block pushes the error result and the
\* loop goes on with the next experiment
ScriptCallFail ==
  /\ script.pc = "creating"
  /\ LET e == ScriptExperiments[script.n] IN
       script' = [script EXCEPT
                    !.pc = "loop", !.n = @ + 1,
                    !.results = Append(@, [facilitatorBehavior |-> e.behavior,
                                           groupSize |-> e.groupSize,
                                           experimentId |-> NA, cohortId |-> NA,
                                           status |-> "error",
                                           error |-> ErrorMessage(script.call)]),
                    !.call = "none"]
  /\ UNCHANGED <<schedVars, pollerVars, view>>

\* await new Promise((resolve) => setTimeout(resolve, 1000)), the last
\* statement of the try block
ScriptDelay ==
  /\ script.pc = "delay"
  /\ script' = [script EXCEPT !.pc = "loop", !.n = @ + 1, !.waited = @ + ScriptDelayMs]
  /\ UNCHANGED <<schedVars, pollerVars, view>>

\* both loops have ended: the summary is printed and the results returned
ScriptFinish ==
  /\ script.pc = "loop"
  /\ script.n > Len(ScriptExperiments)
  /\ script' = [script EXCEPT !.pc = "returned"]
  /\ UNCHANGED <<schedVars, pollerVars, view>>

InitScript == SchedOff /\ PollerOff /\ ScriptInit /\ ViewOff

NextScript ==
  \/ ScriptCreate
  \/ ScriptCallOk
  \/ ScriptCallFail
  \/ ScriptDelay
  \/ ScriptFinish

SpecScript == InitScript /\ [][NextScript]_vars

(***************************************************************************)
(* The conversation replay view (ConversationReplayParticipantView): the   *)
(* component's fields, the timers it has set in the window, and its async  *)
(* methods that are waiting for a save.                                    *)
(***************************************************************************)
\* autoPlayTimer = null; window.setTimeout returns positive handles
NoTimer == 0

\* answerService.getConversationReplayAnswer(stage.id) finds no answer
NoAnswer == [none |-> TRUE]

HasAnswer(answer) == "currentMessageIndex" \in DOMAIN answer

\* the stage configs the view is given: manual or auto-play, replay allowed or not
ReplayStages ==
  [messages : {[x \in 1..NumMessages |-> x]}, autoPlayDelayMs : {0, 1000},
   allowReplay : BOOLEAN]

\* createConversationReplayStageParticipantAnswer({id})
createConversationReplayStageParticipantAnswer ==
  [currentMessageIndex |-> 0, isComplete |-> FALSE, replayCount |-> 0]

\* the answers an earlier visit of the stage can have left: none, or the one
\* handleNext saved at some index
StoredAnswers(stage) ==
  {NoAnswer}
  \cup {[currentMessageIndex |-> k, isComplete |-> k >= Len(stage.messages),
          replayCount |-> 0] : k \in 0..Len(stage.messages)}

\* the view after construction, for a stage and a stored answer
NewView(stage, answer) ==
  [phase |-> "created", stage |-> stage, answer |-> answer,
   currentIndex |-> 0, isAutoPlaying |-> FALSE, autoPlayTimer |-> NoTimer,
   pending |-> {},        \* the timers set in the window and neither fired nor cleared
   nextTimer |-> 1,       \* the handle the next window.setTimeout returns
   loading |-> FALSE,     \* loadAnswer is waiting for its save
   nextsSaving |-> 0,     \* handleNext invocations waiting for their save
   replaysSaving |-> 0,   \* handleReplay invocations waiting for their save
   progressCalls |-> 0,   \* history: calls of progressToNextStage by handleNext
   reached |-> 0,         \* history: times handleNext advanced to the last message
   refused |-> FALSE]     \* history: a handleNext returned at its isComplete test

\* isComplete(): currentIndex >= (stage?.messages.length ?? 0)
isComplete(v) == v.currentIndex >= Len(v.stage.messages)

\* stopAutoPlay()
stopAutoPlay(v) ==
  [v EXCEPT !.isAutoPlaying = FALSE,
            !.pending = IF v.autoPlayTimer # NoTimer THEN @ \ {v.autoPlayTimer} ELSE @,
            !.autoPlayTimer = NoTimer]

\* scheduleNextMessage(): autoPlayTimer = window.setTimeout(() => handleNext(), delay)
scheduleNextMessage(v) ==
  IF ~v.isAutoPlaying \/ isComplete(v)
  THEN [v EXCEPT !.isAutoPlaying = FALSE]
  ELSE [v EXCEPT !.autoPlayTimer = v.nextTimer,
                 !.pending = @ \cup {v.nextTimer},
                 !.nextTimer = @ + 1]

\* startAutoPlay()
startAutoPlay(v) ==
  IF v.stage.autoPlayDelayMs = 0 THEN v
  ELSE scheduleNextMessage([v EXCEPT !.isAutoPlaying = TRUE])

\* the answer handleNext and handleReplay write into:
\* getConversationReplayAnswer(stage.id) ?? create...({id})
AnswerOrNew(v) ==
  IF HasAnswer(v.answer) THEN v.answer ELSE createConversationReplayStageParticipantAnswer

\* mutant of handleNextBegin: the index is advanced without the isComplete test
handleNextBeginUnguarded(v) ==
  LET v1 == [v EXCEPT !.currentIndex = @ + 1] IN
    [v1 EXCEPT !.answer = [AnswerOrNew(v) EXCEPT !.currentMessageIndex = v1.currentIndex,
                                                 !.isComplete = isComplete(v1)],
               !.reached = IF isComplete(v1) THEN @ + 1 ELSE @,
               !.nextsSaving = @ + 1]

\* handleNext() up to its first await: return when complete, else advance the
\* index, write it into the answer and call saveAnswer
handleNextBegin(v) ==
  IF isComplete(v) THEN [v EXCEPT !.refused = TRUE]
  ELSE LET v1 == [v EXCEPT !.currentIndex = @ + 1] IN
         [v1 EXCEPT !.answer = [AnswerOrNew(v) EXCEPT !.currentMessageIndex = v1.currentIndex,
                                                      !.isComplete = isComplete(v1)],
                    !.reached = IF isComplete(v1) THEN @ + 1 ELSE @,
                    !.nextsSaving = @ + 1]

\* handleNext() after its save returned (updateComplete is resolved by then):
\* schedule the next message when auto-playing, and when complete stop the
\* auto-play and call progressToNextStage
handleNextEnd(v) ==
  LET v1 == [v EXCEPT !.nextsSaving = @ - 1]
      v2 == IF v1.isAutoPlaying /\ ~isComplete(v1) THEN scheduleNextMessage(v1) ELSE v1
  IN IF isComplete(v2)
     THEN [stopAutoPlay(v2) EXCEPT !.progressCalls = @ + 1]
     ELSE v2

\* handleReplay() up to its await
handleReplayBegin(v) ==
  LET v1 == [stopAutoPlay(v) EXCEPT !.currentIndex = 0] IN
    [v1 EXCEPT !.answer = [AnswerOrNew(v) EXCEPT !.currentMessageIndex = 0,
                                                 !.isComplete = FALSE,
                                                 !.replayCount = @ + 1],
               !.replaysSaving = @ + 1]

\* handleReplay() after its save returned
handleReplayEnd(v) ==
  LET v1 == [v EXCEPT !.replaysSaving = @ - 1]
  IN IF v1.stage.autoPlayDelayMs > 0 THEN startAutoPlay(v1) ELSE v1

\* the last lines of loadAnswer: start auto-play if configured
loadAnswerEnd(v) ==
  IF v.stage.autoPlayDelayMs > 0 /\ ~isComplete(v) THEN startAutoPlay(v) ELSE v

\* loadAnswer() up to its await, or to its end when an answer is stored
loadAnswerBegin(v) ==
  IF HasAnswer(v.answer)
  THEN loadAnswerEnd([v EXCEPT !.currentIndex =
                                 IF v.answer.isComplete THEN Len(v.stage.messages)
                                 ELSE v.answer.currentMessageIndex])
  ELSE [v EXCEPT !.answer = createConversationReplayStageParticipantAnswer,
                 !.loading = TRUE]

\* toggleAutoPlay()
toggleAutoPlay(v) ==
  IF v.stage.autoPlayDelayMs = 0 THEN v
  ELSE IF v.isAutoPlaying THEN stopAutoPlay(v) ELSE startAutoPlay(v)

\* the view becomes v2; a run sets MaxTimers timers at most
ViewStep(v2) ==
  /\ v2.nextTimer <= MaxTimers + 1
  /\ view' = v2
  /\ UNCHANGED <<schedVars, pollerVars, script>>

ViewInit ==
  \E stage \in ReplayStages : \E answer \in StoredAnswers(stage) :
    view = NewView(stage, answer)

\* connectedCallback(): loadAnswer()
Connect ==
  /\ view.phase = "created"
  /\ ViewStep(loadAnswerBegin([view EXCEPT !.phase = "connected"]))

\* the save of loadAnswer returns
LoadAnswerSaved ==
  /\ view.loading
  /\ ViewStep(loadAnswerEnd([view EXCEPT !.loading = FALSE]))

\* the save of loadAnswer fails: loadAnswer rejects
LoadAnswerSaveFailed ==
  /\ view.loading
  /\ ViewStep([view EXCEPT !.loading = FALSE])

\* the Next Message button (rendered while not complete and not auto-playing)
ClickNext ==
  /\ view.phase = "connected"
  /\ ~isComplete(view)
  /\ ~view.isAutoPlaying
  /\ ViewStep(handleNextBegin(view))

\* a timer fires: its callback calls handleNext()
TimerFires(t) ==
  /\ t \in view.pending
  /\ ViewStep(handleNextBegin([view EXCEPT !.pending = @ \ {t}]))

\* the save of a handleNext returns
HandleNextSaved ==
  /\ view.nextsSaving > 0
  /\ ViewStep(handleNextEnd(view))

\* the save of a handleNext fails: handleNext rejects
HandleNextSaveFailed ==
  /\ view.nextsSaving > 0
  /\ ViewStep([view EXCEPT !.nextsSaving = @ - 1])

\* the Pause / Auto-play button (rendered with a delay and while not complete)
ClickAutoPlay ==
  /\ view.phase = "connected"
  /\ view.stage.autoPlayDelayMs > 0
  /\ ~isComplete(view)
  /\ ViewStep(toggleAutoPlay(view))

\* the Replay Conversation button (rendered when allowed and complete)
ClickReplay ==
  /\ view.phase = "connected"
  /\ view.stage.allowReplay
  /\ isComplete(view)
  /\ AnswerOrNew(view).replayCount < MaxReplays
  /\ ViewStep(handleReplayBegin(view))

\* the save of a handleReplay returns
HandleReplaySaved ==
  /\ view.replaysSaving > 0
  /\ ViewStep(handleReplayEnd(view))

\* the save of a handleReplay fails: handleReplay rejects
HandleReplaySaveFailed ==
  /\ view.replaysSaving > 0
  /\ ViewStep([view EXCEPT !.replaysSaving = @ - 1])

\* disconnectedCallback(): stopAutoPlay()
Disconnect ==
  /\ view.phase = "connected"
  /\ ViewStep(stopAutoPlay([view EXCEPT !.phase = "disconnected"]))

InitReplay == SchedOff /\ PollerOff /\ ScriptOff /\ ViewInit

NextReplay ==
  \/ Connect
  \/ LoadAnswerSaved
  \/ LoadAnswerSaveFailed
  \/ ClickNext
  \/ \E t \in 1..MaxTimers : TimerFires(t)
  \/ HandleNextSaved
  \/ HandleNextSaveFailed
  \/ ClickAutoPlay
  \/ ClickReplay
  \/ HandleReplaySaved
  \/ HandleReplaySaveFailed
  \/ Disconnect

SpecReplay == InitReplay /\ [][NextReplay]_vars

(***************************************************************************)
(* Properties of createBatchExperiments (checked under Spec).              *)
(***************************************************************************)
Budget == MaxConcurrentOf(config)

\* createBatchExperiments has ended: it returned, or its promise rejected
RunEnded == pc \in {"returned", "rejected"}

\* the n-th result describes the n-th enumerated spec
Describes(r, spec) ==
  r.facilitatorBehavior = spec.behavior /\ r.groupSize = spec.groupSize

\* the calls a fully provisioned unit has made: experiment, cohort, facilitator,
\* and one per persona
CallsOf(spec) == 3 + NumPersonas(spec)

\* units with a remote operation in flight
InFlight ==
  Cardinality({k \in 1..Len(prov) : prov[k].call # "none"})
  + Cardinality({k \in 1..Len(poll) : poll[k] = "polling"})
  + (IF exporting THEN 1 ELSE 0)

\* C1: at every loop head the result list has one entry per spec consumed so
\* far, and when the run has ended, however it ended, it has one entry per
\* enumerated spec.
CexC1 ==
  /\ pc = "loop" => Len(results) = Min(i, N)
  /\ RunEnded => Len(results) = N

\* C2: the n-th entry of the result list describes the n-th enumerated spec, at
\* every moment and in the list returned, whatever order the provisioning calls
\* of a window complete in.
ThmC2 ==
  /\ Len(results) <= N
  /\ \A n \in 1..Len(results) : Describes(results[n], allExperiments[n])
  /\ pc = "returned" => Len(results) = N

WitC2 ==
  /\ pc = "returned"
  /\ reordered
  /\ Len(results) = NumBehaviors * NumGroupSizes
  /\ Budget > 1

ThmC4 ==
  /\ \A n \in 1..Len(results) :
       IF failedCall[n] # "none"
       THEN /\ results[n].status = "error"
            /\ results[n].error = ErrorMessage(failedCall[n])
            /\ served[n] = "none"
       ELSE /\ results[n].status = "success"
            /\ results[n].experimentId = ExpId(n)
            /\ results[n].cohortId = CohortId(n)
            /\ served[n] \in {"ok", "failed"}
            /\ served[n] = "failed" => results[n].conversations = <<>>
            /\ \A x \in 1..Len(results[n].conversations) :
                 /\ results[n].conversations[x].experimentId = ExpId(n)
                 /\ results[n].conversations[x].cohortId = CohortId(n)
  /\ pc = "loop" =>
       /\ Len(results) = Min(i, N)
       /\ (Truthy(config.outputPath) /\ i > 0) => log.written = results

WitC4 ==
  /\ pc = "loop"
  /\ i = 3
  /\ Len(results) = 3
  /\ resultsFile = results
  /\ failedCall[2] = "createCohort"
  /\ results[2].status = "error"
  /\ results[1].status = "success" /\ Len(results[1].conversations) > 0
  /\ results[3].status = "success" /\ Len(results[3].conversations) > 0

\* C5: createBatchExperiments never rejects.
CexC5 == pc # "rejected"

\* C6: the units with a remote operation in flight are never more than the
\* concurrency budget, and while any unit of the window that starts at spec i
\* has an operation in flight, the results of all earlier windows (i entries)
\* are appended and, with an output path, written by one checkpoint per window.
ThmC6 ==
  /\ InFlight <= Budget
  /\ InFlight > 0 =>
       /\ Len(results) >= i
       /\ Len(results) <= i + Len(batch)
       /\ i % Budget = 0
       /\ Truthy(config.outputPath) =>
            /\ writes = i \div Budget
            /\ log.written = SubSeq(results, 1, i)

WitC6 ==
  /\ pc = "provision"
  /\ i > 0
  /\ InFlight = Budget
  /\ Budget = 2
  /\ writes = 1

\* the unit at position k of the window has been through the export loop
Exported(k) == pc \in {"export", "write"} /\ j > k

\* C11: a unit whose poller returned, with false (timed out) as with true, is a
\* successfully provisioned unit, is still a successful setup in the export
\* loop, has its export call issued exactly once when the loop reaches it and
\* is recorded with status success and its own ids.
ThmC11 ==
  \A k \in 1..Len(poll) :
    (poll[k] \in {"true", "false"} /\ pc \in {"poll", "export", "write"}) =>
      /\ IsSuccessfulSetup(batchSetups[k])
      /\ ~Truthy(Field(batchSetups[k], "error"))
      /\ pc = "poll" => log.exports[i + k] = 0
      /\ (pc = "export" /\ j = k) => log.exports[i + k] = (IF exporting THEN 1 ELSE 0)
      /\ Exported(k) =>
           /\ log.exports[i + k] = 1
           /\ served[i + k] \in {"ok", "failed"}
           /\ results[i + k].status = "success"
           /\ results[i + k].experimentId = ExpId(i + k)
           /\ results[i + k].cohortId = CohortId(i + k)
           /\ "error" \notin DOMAIN results[i + k]

\* a window in which one poller timed out and one returned true, both exported
WitC11 ==
  /\ pc = "export"
  /\ \E k \in 1..Len(poll) :
       /\ poll[k] = "false"
       /\ Exported(k)
       /\ served[i + k] = "ok"
       /\ Len(results[i + k].conversations) > 0
  /\ \E k \in 1..Len(poll) :
       /\ poll[k] = "true"
       /\ Exported(k)
       /\ served[i + k] = "ok"

\* C12: a unit whose export call failed has a result with status success, its
\* own experiment and cohort ids, no error field and an empty conversation
\* list; the results before it are what they were when its call was issued, and
\* every other unit of the run still gets the result its own provisioning and
\* export decide.
ThmC12 ==
  /\ \A n \in 1..Len(results) :
       served[n] = "failed" =>
         /\ failedCall[n] = "none"
         /\ results[n].status = "success"
         /\ results[n].experimentId = ExpId(n)
         /\ results[n].cohortId = CohortId(n)
         /\ "error" \notin DOMAIN results[n]
         /\ results[n].conversations = <<>>
  /\ \A n \in 1..Len(results) :
       (\E m \in 1..Len(served) : served[m] = "failed" /\ m # n) =>
         /\ results[n].status = (IF failedCall[n] = "none" THEN "success" ELSE "error")
         /\ served[n] = "ok" =>
              results[n].conversations \in ExportReturns(ExpId(n), CohortId(n))
  /\ pc = "returned" => Len(results) = N

\* a returned run in which the export of one unit failed between two units
\* whose exports returned conversations
WitC12 ==
  /\ pc = "returned"
  /\ \E n \in 2..(Len(results) - 1) :
       /\ served[n] = "failed"
       /\ served[n - 1] = "ok" /\ Len(results[n - 1].conversations) > 0
       /\ served[n + 1] = "ok" /\ Len(results[n + 1].conversations) > 0
       /\ (n - 1) \div Budget = (n + 1 - 1) \div Budget

\* the specs of the window whose provisioning has been joined
Joined(n) ==
  \/ n <= i
  \/ n <= i + Len(batch) /\ pc \in {"poll", "export", "write", "rejected"}

\* C13: the export call is never issued for a unit whose provisioning failed
\* and never twice for one unit; every unit with a success result had exactly
\* one export call, and every unit whose provisioning failed has the result
\* built from its spec with status error, the message of its failing call and
\* the ids 'N/A'; when the export loop of a window has ended, every unit of the
\* window has its result.
ThmC13 ==
  /\ \A n \in DOMAIN log.exports :
       /\ log.exports[n] <= 1
       /\ failedCall[n] # "none" => log.exports[n] = 0
       /\ log.exports[n] = 1 =>
            (failedCall[n] = "none" /\ okCalls[n] = CallsOf(allExperiments[n]))
  /\ \A n \in 1..Len(results) :
       IF failedCall[n] = "none"
       THEN log.exports[n] = 1 /\ results[n].status = "success"
       ELSE results[n] =
              [facilitatorBehavior |-> allExperiments[n].behavior,
               groupSize |-> allExperiments[n].groupSize,
               experimentId |-> NA, cohortId |-> NA, status |-> "error",
               error |-> ErrorMessage(failedCall[n])]
  /\ pc = "write" => Len(results) = i + Len(batch)

\* the export loop of a window of three has ended, with a failed unit between
\* two exported ones
WitC13 ==
  /\ pc = "write"
  /\ Len(batch) = 3
  /\ Len(results) = i + 3
  /\ failedCall[i + 2] = "addParticipant"
  /\ results[i + 2].error = ErrorMessage("addParticipant")
  /\ log.exports[i + 1] = 1 /\ log.exports[i + 2] = 0 /\ log.exports[i + 3] = 1

\* C14: no poller is started twice for a unit, none for a unit whose
\* provisioning failed, and none at all when waitForCompletion is disabled;
\* when it is enabled, a unit has had its poller started exactly when its
\* provisioning succeeded and its window's provisioning has been joined.
ThmC14 ==
  /\ \A n \in DOMAIN log.polls :
       /\ log.polls[n] <= 1
       /\ failedCall[n] # "none" => log.polls[n] = 0
       /\ ~config.waitForCompletion => log.polls[n] = 0
       /\ config.waitForCompletion =>
            (log.polls[n] = 1 <=>
               (failedCall[n] = "none" /\ okCalls[n] = CallsOf(allExperiments[n])
                /\ Joined(n)))
  /\ \A k \in 1..Len(poll) :
       /\ ~config.waitForCompletion => poll[k] = "idle"
       /\ (poll[k] # "idle" /\ pc \in {"poll", "export", "write", "rejected"}) =>
            log.polls[i + k] = 1

\* a window of two whose first unit failed and whose second unit is polled
WitC14 ==
  /\ pc = "poll"
  /\ config.waitForCompletion
  /\ i > 0
  /\ Len(batch) = 2
  /\ failedCall[i + 1] = "createCohort" /\ poll[1] = "idle" /\ log.polls[i + 1] = 0
  /\ poll[2] = "polling" /\ log.polls[i + 2] = 1

\* some unit of the window is still being provisioned
Provisioning == \E k \in 1..Len(prov) : prov[k].call # "none"

\* some poller of the window has not returned
Polling == \E k \in 1..Len(poll) : poll[k] = "polling"

\* no poller and no export call of the current window has been started
NothingStarted ==
  /\ ~exporting
  /\ \A m \in 1..Len(batch) :
       poll[m] = "idle" /\ log.polls[i + m] = 0 /\ log.exports[i + m] = 0

\* C15: while a unit of the window is being provisioned, no poller and no export
\* of the window has been started; while a poller of the window has not
\* returned, no export of the window has been started; the failure of one unit
\* leaves the calls of the other units as they are, and once the provisioning
\* is joined every unit that did not fail itself has made all its calls.
ThmC15 ==
  /\ [](Provisioning => (pc = "provision" /\ NothingStarted))
  /\ [](Polling =>
         (~exporting /\ \A m \in 1..Len(batch) : log.exports[i + m] = 0))
  /\ []((pc \in {"poll", "export", "write"}) =>
         \A k \in 1..Len(batch) :
           /\ batchSetups[k] # Pending
           /\ failedCall[i + k] = "none" => okCalls[i + k] = CallsOf(batch[k]))
  /\ [][\A k \in 1..Len(batch) :
          (i + k \in DOMAIN failedCall' /\ failedCall'[i + k] # failedCall[i + k]) =>
            (pc' = "provision" /\ \A m \in 1..Len(batch) : m # k => prov'[m] = prov[m])]_vars

\* first window of two, pollers returned, second unit failed at its first call
\* while the first unit still had calls to make, and the first unit is exported
WitC15 ==
  /\ pc = "export"
  /\ exporting
  /\ config.waitForCompletion
  /\ i = 0
  /\ Len(batch) = 2
  /\ reordered
  /\ failedCall[2] = "createExperiment"
  /\ okCalls[1] = CallsOf(batch[1])
  /\ poll[1] = "false"
  /\ log.exports[1] = 1



\* the window the n-th spec belongs to (0-based)
WindowIndex(n) == (n - 1) \div Budget

\* C16: with an output path, after a crash the results file holds a result for
\* every unit of every window whose checkpoint write completed, and the units
\* with work done and no result in the file all belong to one window.
CexC16 ==
  (pc = "crashed" /\ Truthy(config.outputPath)) =>
    /\ Len(resultsFile) >= Min(writes * Budget, N)
    /\ \A a, b \in log.lost : WindowIndex(a) = WindowIndex(b)

\* totalBatches = Math.ceil(allExperiments.length / maxConcurrent)
TotalBatches == (N + Budget - 1) \div Budget

\* C17 as claimed: over the whole run of a non-empty design, main included, the
\* results file is written exactly once per window.
CexC17 == (pc = "saved" /\ N > 0) => writes = log.windows

\* C17 as amended: when createBatchExperiments returns it has started exactly
\* ceil(n/c) windows and, with an output path, written the results file once
\* per window; at every loop head the windows started and the writes are
\* i / c; main then writes the file once more, so a run through main writes it
\* ceil(n/c) + 1 times.
ThmC17 ==
  /\ pc \in {"returned", "mainwrite", "saved"} => log.windows = TotalBatches
  /\ pc \in {"loop", "returned", "mainwrite"} =>
       /\ log.windows = Min((i + Budget - 1) \div Budget, TotalBatches)
       /\ writes = (IF Truthy(config.outputPath) THEN log.windows ELSE 0)
  /\ pc \in {"provision", "poll", "export", "write"} =>
       /\ log.windows = i \div Budget + 1
       /\ writes = (IF Truthy(config.outputPath) THEN log.windows - 1 ELSE 0)
  /\ pc = "saved" => writes = TotalBatches + 1

\* 4 units with budget 1: 4 windows, 4 checkpoint writes and the write of main
WitC17 ==
  /\ pc = "saved"
  /\ N = 4
  /\ Budget = 1
  /\ log.windows = 4
  /\ writes = 5
  /\ Len(resultsFile) = 4

\* the calls of a fully provisioned unit, in the order of the try block
CallOrder(spec) ==
  <<"createExperiment", "createCohort", "addFacilitator">>
  \o [x \in 1..NumPersonas(spec) |-> "addParticipant"]

\* s is an initial part of t
IsPrefix(s, t) == Len(s) <= Len(t) /\ s = SubSeq(t, 1, Len(s))

\* the n-th spec has a provisioning call in flight
CallInFlight(n) ==
  /\ pc = "provision"
  /\ n \in (i + 1)..(i + Len(prov))
  /\ prov[n - i].call # "none"

\* C18: the calls issued for a unit are at every moment an initial part of
\* create experiment, create cohort, add facilitator, add participant (one per
\* persona); every call is issued once (the calls issued are the ones that
\* succeeded, the one that failed and the one in flight); a call is issued only
\* by appending it to the ones before; after a unit's call has failed no call
\* is issued for it any more, the failed call is its last, and its result
\* carries the message of that call.
ThmC18 ==
  /\ [](\A n \in DOMAIN log.calls :
         /\ IsPrefix(log.calls[n], CallOrder(allExperiments[n]))
         /\ Len(log.calls[n]) =
              okCalls[n] + (IF failedCall[n] # "none" THEN 1 ELSE 0)
                         + (IF CallInFlight(n) THEN 1 ELSE 0)
         /\ failedCall[n] # "none" =>
              /\ ~CallInFlight(n)
              /\ log.calls[n][Len(log.calls[n])] = failedCall[n]
              /\ log.polls[n] = 0 /\ log.exports[n] = 0
              /\ n <= Len(results) =>
                   (results[n].status = "error"
                    /\ results[n].error = ErrorMessage(failedCall[n])))
  /\ [][\A n \in DOMAIN log.calls \cap DOMAIN log'.calls :
          /\ IsPrefix(log.calls[n], log'.calls[n])
          /\ Len(log'.calls[n]) <= Len(log.calls[n]) + 1
          /\ failedCall[n] # "none" =>
               (log'.calls[n] = log.calls[n] /\ failedCall'[n] = failedCall[n])]_vars

\* a returned run in which one unit failed at its second participant and
\* another unit made all the calls of a group of three
WitC18 ==
  /\ pc = "returned"
  /\ \E n \in DOMAIN log.calls :
       /\ failedCall[n] = "addParticipant"
       /\ log.calls[n] = <<"createExperiment", "createCohort", "addFacilitator",
                            "addParticipant", "addParticipant">>
       /\ results[n].error = ErrorMessage("addParticipant")
  /\ \E n \in DOMAIN log.calls :
       /\ failedCall[n] = "none"
       /\ Len(log.calls[n]) = 6

\* how often op is among calls
Count(calls, op) == Cardinality({x \in 1..Len(calls) : calls[x] = op})

\* C19: for every unit recorded as success the cohort was created with capacity
\* groupSize + 1 and one facilitator and groupSize participant agents were
\* added: as many agents as the cohort's capacity.
CexC19 ==
  \A n \in 1..Len(results) :
    results[n].status = "success" =>
      /\ log.capacity[n] = results[n].groupSize + 1
      /\ Count(log.calls[n], "addFacilitator") = 1
      /\ Count(log.calls[n], "addParticipant") = results[n].groupSize
      /\ Count(log.calls[n], "addFacilitator") + Count(log.calls[n], "addParticipant")
           = log.capacity[n]


\* the names the filters leave: the one named by behaviorFilter, or else the
\* first behaviour (test mode) or all of them, less the excluded ones
BehaviorsLeft(cfg) ==
  LET all == {FACILITATOR_BEHAVIORS[x] : x \in 1..Len(FACILITATOR_BEHAVIORS)}
      chosen == IF Truthy(cfg.behaviorFilter) THEN all \cap {cfg.behaviorFilter}
                ELSE IF cfg.testMode THEN {FACILITATOR_BEHAVIORS[1]} ELSE all
  IN chosen \ {cfg.excludeBehavior[x] : x \in 1..Len(cfg.excludeBehavior)}

\* the command was started without its API key or without its base URL
MissingCredentials == ~Truthy(config.apiKey) \/ ~Truthy(config.baseUrl)

\* no request of any kind has been sent and none is in flight
NoRemoteCall ==
  /\ log.windows = 0
  /\ \A n \in DOMAIN log.calls :
       log.calls[n] = <<>> /\ log.polls[n] = 0 /\ log.exports[n] = 0
  /\ InFlight = 0
  /\ pc \notin {"provision", "poll", "export", "write"}

\* C21: a run whose API key or base URL is missing never enters
\* createBatchExperiments, and a run whose filters leave no behaviour returns
\* from it before the window loop; in both, no experiment, cohort, participant,
\* poll or export request is ever sent.
ThmC21 ==
  /\ MissingCredentials => (pc \in {"main", "exit1", "crashed"} /\ NoRemoteCall)
  /\ BehaviorsLeft(config) = {} =>
       (pc \notin {"loop", "rejected"} /\ N = 0 /\ NoRemoteCall)

\* the command has exited with code 1 for the missing base URL alone
WitC21 ==
  /\ pc = "exit1"
  /\ Truthy(config.apiKey)
  /\ ~Truthy(config.baseUrl)
  /\ config.firebaseConfig
  /\ ~config.scenariosFile

\* the exclude list names every behaviour the run would otherwise use
ExcludesAll ==
  /\ config.excludeBehavior # <<>>
  /\ BehaviorsLeft(config) = {}
  /\ BehaviorsLeft([config EXCEPT !.excludeBehavior = <<>>]) # {}

\* C22: a command whose exclude list names every behaviour never finishes as a
\* normal run (the results file saved, exit code 0); it exits with code 1.
CexC22 ==
  ExcludesAll /\ ~MissingCredentials => pc # "saved"

\* a name of the exclude list is not the name of any behaviour
UnknownExcluded ==
  \E x \in 1..Len(config.excludeBehavior) :
    \A y \in 1..Len(FACILITATOR_BEHAVIORS) :
      config.excludeBehavior[x] # FACILITATOR_BEHAVIORS[y]

\* the include filter names no behaviour
UnknownIncluded ==
  /\ Truthy(config.behaviorFilter)
  /\ \A y \in 1..Len(FACILITATOR_BEHAVIORS) : config.behaviorFilter # FACILITATOR_BEHAVIORS[y]

\* C23: a run whose include filter or whose exclude list names a behaviour
\* that does not exist enumerates no spec and sends no request.
CexC23 ==
  (UnknownIncluded \/ UnknownExcluded) => (N = 0 /\ NoRemoteCall)

\* C26: while a provisioning call of the window has not returned, the run is
\* in the provisioning phase of that window and the result list holds the
\* results of the earlier windows only; and as long as it stays so, no result
\* is appended, nothing is written to the files, the window index does not
\* move and no window is started: a call that never returns stalls the batch
\* for good. The other units of the window are not held up by it.
ThmC26 ==
  /\ [](Provisioning =>
         /\ pc = "provision"
         /\ Len(results) = i
         /\ log.windows = (i \div Budget) + 1
         /\ \A n \in (i + 1)..(i + Len(batch)) : log.exports[n] = 0 /\ log.polls[n] = 0)
  /\ [][(Provisioning /\ Provisioning') =>
          /\ results' = results
          /\ resultsFile' = resultsFile
          /\ dialogueFile' = dialogueFile
          /\ writes' = writes
          /\ i' = i
          /\ batch' = batch
          /\ log'.windows = log.windows
          /\ pc' = "provision"]_vars

\* in the second window every unit but one has settled, and that one is still
\* waiting for its first call to return
WitC26 ==
  /\ pc = "provision"
  /\ i > 0
  /\ Len(batch) > 1
  /\ prov[1].call = "createExperiment"
  /\ \A k \in 2..Len(batch) : prov[k].call = "none" /\ batchSetups[k] # Pending
  /\ \E k \in 2..Len(batch) : IsSuccessfulSetup(batchSetups[k])
  /\ Len(results) = i
  /\ writes = log.windows - 1

WriteCompletes == pc \in {"write", "mainwrite"} /\ pc' \notin {"write", "mainwrite", "crashed"}

\* C29: as long as the process lives, every step leaves the result list as it
\* is or extends it at its end: no entry is modified, reordered or removed.
\* Every write of the results file that completes was called with the result
\* list as it is then, and the list the write before was called with (the
\* empty one before the first) is an initial part of it.
ThmC29 ==
  /\ [][pc' # "crashed" => IsPrefix(results, results')]_vars
  /\ [][(log'.written # log.written /\ pc' # "crashed") => WriteCompletes]_vars
  /\ [][WriteCompletes =>
          /\ log'.written = results
          /\ results' = results
          /\ writes' = writes + 1
          /\ IsPrefix(log.written, log'.written)
          /\ Len(log.written) = Min(i, N)]_vars

\* the second checkpoint has completed: it was called with the results of two
\* windows, the first window's as written before
WitC29 ==
  /\ pc = "loop"
  /\ writes = 2
  /\ Budget = 2
  /\ Len(results) = 4
  /\ log.written = results
  /\ resultsFile = results
  /\ results[1].status = "success"
  /\ results[2].status = "error"

\* C30: when the checkpoint of a window has completed, the results file holds
\* the whole result list and the dialogue file the dialogue generated from that
\* list.
CexC30 ==
  (pc = "loop" /\ i > 0 /\ Truthy(config.outputPath)) =>
    /\ resultsFile = results
    /\ dialogueFile = generateSimpleDialogue(results)

\* the rest of C30 (checked; it holds): the files are changed only by the
\* driver, at a checkpoint or in main after the run, with no provisioning call,
\* poller or export call in flight; and with an output path that has a
\* '.json' to replace, the files hold the list and its dialogue after every
\* checkpoint.
SingleWriter ==
  /\ []((pc = "loop" /\ i > 0 /\ Truthy(config.outputPath)
         /\ DialoguePath(config.outputPath) # config.outputPath) =>
         /\ resultsFile = results
         /\ dialogueFile = generateSimpleDialogue(results))
  /\ [][(resultsFile' # resultsFile \/ dialogueFile' # dialogueFile \/ writes' # writes) =>
          /\ InFlight = 0 /\ InFlight' = 0
          /\ ~Polling
          /\ \/ pc = "export" /\ j > Len(batchSetups) /\ pc' = "write"
             \/ pc = "write" /\ pc' = "loop"
             \/ pc = "returned" /\ pc' = "mainwrite"
             \/ pc = "mainwrite" /\ pc' = "saved"]_vars

\* a window is being processed
InWindow == pc \in {"provision", "poll", "export", "write"}

\* C31: with c the configured budget, 3 when none is configured, the window
\* being processed is the contiguous piece of the spec list that starts at a
\* multiple of c, in enumeration order; it has exactly c units unless it is the
\* last one, which has between 1 and c, and the windows follow one another
\* without a gap.
ThmC31 ==
  LET c == IF config.maxConcurrent > 0 THEN config.maxConcurrent ELSE 3 IN
    /\ InWindow =>
         /\ i % c = 0
         /\ i < N
         /\ log.windows = i \div c + 1
         /\ batch = SubSeq(allExperiments, i + 1, i + Len(batch))
         /\ Len(batch) = (IF i + c <= N THEN c ELSE N - i)
         /\ Len(batch) >= 1
         /\ Len(batch) <= c
    /\ pc = "loop" => i = log.windows * c

\* four specs and no configured budget: a window of three, then one of one
WitC31 ==
  /\ pc = "provision"
  /\ config.maxConcurrent = 0
  /\ N = 4
  /\ log.windows = 2
  /\ i = 3
  /\ batch = <<allExperiments[4]>>

\* C34: a success result carries the non-empty experiment id and cohort id the
\* server returned for its unit and no error; an error result carries 'N/A'
\* for both ids and a non-empty error message; every settled setup of a window
\* passes exactly one of the two tests (ids present: polled; error present:
\* recorded as error), so with waitForCompletion the units that were polled
\* are the units recorded as success.
ThmC34 ==
  /\ \A n \in 1..Len(results) :
       /\ results[n].status = "success" =>
            /\ results[n].experimentId = ExpId(n)
            /\ results[n].cohortId = CohortId(n)
            /\ Truthy(results[n].experimentId) /\ results[n].experimentId # NA
            /\ Truthy(results[n].cohortId) /\ results[n].cohortId # NA
            /\ "error" \notin DOMAIN results[n]
            /\ log.calls[n][1] = "createExperiment" /\ log.calls[n][2] = "createCohort"
       /\ results[n].status = "error" =>
            /\ results[n].experimentId = NA
            /\ results[n].cohortId = NA
            /\ Truthy(results[n].error)
       /\ results[n].status \in {"success", "error"}
       /\ config.waitForCompletion => (log.polls[n] = 1 <=> results[n].status = "success")
       /\ log.polls[n] \in {0, 1}
  /\ \A k \in 1..Len(batchSetups) :
       batchSetups[k] # Pending =>
         (IsSuccessfulSetup(batchSetups[k]) <=> ~IsErrorSetup(batchSetups[k]))
  /\ (pc \in {"poll", "export", "write"} /\ config.waitForCompletion) =>
       \A k \in 1..Len(batchSetups) :
         log.polls[i + k] = 1 <=> ~IsErrorSetup(batchSetups[k])

\* a window of two with waitForCompletion: the first unit failed at the
\* facilitator, with both ids already returned, and was not polled; the second
\* was polled; both results are appended
WitC34 ==
  /\ pc = "export"
  /\ config.waitForCompletion
  /\ Len(results) = 2
  /\ failedCall[1] = "addFacilitator"
  /\ results[1].status = "error" /\ results[1].experimentId = NA
  /\ log.polls[1] = 0
  /\ results[2].status = "success" /\ results[2].experimentId = ExpId(2)
  /\ log.polls[2] = 1

\* the window loop has ended and the summary has been printed
SummaryPrinted == pc \in {"returned", "mainwrite", "saved"} /\ FilterBehaviors(config).ok

\* C35: in the summary the success count plus the error count is the reported
\* total, which is the number of enumerated specs, in group-size mode and in
\* scenario mode.
CexC35 ==
  SummaryPrinted =>
    LET s == Summary(config, results) IN
      /\ s.successCount + s.errorCount = s.totalExperiments
      /\ s.totalExperiments = N

\* in group-size mode the counts add up to the reported total, the number of
\* enumerated specs; in both modes they add up to the number of specs
SummaryAddsUp ==
  SummaryPrinted =>
    LET s == Summary(config, results) IN
      /\ s.successCount + s.errorCount = N
      /\ Len(config.scenarios) = 0 => s.totalExperiments = N

(***************************************************************************)
(* Termination (checked under SpecLive).                                   *)
(***************************************************************************)
\* createBatchExperiments has returned with a result for every enumerated
\* spec, every window started and checkpointed, and no poller running
Finished ==
  /\ pc \in {"returned", "mainwrite", "saved"}
  /\ Len(results) = N
  /\ log.windows = TotalBatches
  /\ writes >= TotalBatches
  /\ \A k \in 1..Len(poll) : poll[k] \in {"idle", "true", "false"}

\* C33: when every remote call returns and maxWait is finite,
\* createBatchExperiments eventually finishes: every poller has returned,
\* every window is completed and checkpointed and every spec has a result.
CexC33 == <>Finished

(***************************************************************************)
(* The window loop under any budget (checked under SpecWindows).           *)
(***************************************************************************)
\* C36: whatever integer the budget is, the window loop handles every spec
\* exactly once and ends after finitely many windows: every window it starts
\* takes at least one spec that no window before it took, so the loop index
\* never goes below 0, there are never more windows than specs, and at every
\* loop head the specs before the index are the ones that have a result.
CexC36 ==
  /\ i >= 0
  /\ log.windows <= N
  /\ InWindow => (Len(batch) >= 1 /\ batch = SubSeq(allExperiments, i + 1, i + Len(batch)))
  /\ pc = "loop" => Len(results) = Min(i, N)
  /\ pc \in {"returned", "mainwrite", "saved"} => Len(results) = N

\* with a budget that is positive, or 0 (the default applies), the loop is as
\* the claim says
PositiveBudgetLoop == config.maxConcurrent >= 0 => CexC36

\* a budget of -1 and four specs: the first window took the first three specs,
\* the windows after it are empty and the fourth spec has no result
EmptyWindows ==
  /\ config.maxConcurrent = -1
  /\ N = 4
  /\ pc = "loop"
  /\ log.windows = MaxWindows
  /\ i = 0 - MaxWindows
  /\ Len(results) = 3

(***************************************************************************)
(* Properties of the conversation replay view (checked under SpecReplay).  *)
(***************************************************************************)
\* C37: with N messages and a stored index within 0..N, currentIndex is within
\* 0..N in every state, whatever the order of the Next clicks, the timer
\* firings, pause, resume and replay; once the view is connected the index
\* only goes up by steps of one, from an index below N.
ThmC37 ==
  /\ [](view.currentIndex \in 0..NumMessages)
  /\ [](Len(view.stage.messages) = NumMessages)
  /\ [][(view.phase # "created" /\ view'.currentIndex > view.currentIndex) =>
         (view.currentIndex < NumMessages /\ view'.currentIndex = view.currentIndex + 1)]_vars

\* after a replay the index is at N again, two handleNext invocations are
\* waiting for their save, and a timer that fired at the last message was
\* turned away
WitC37 ==
  /\ view.currentIndex = NumMessages
  /\ view.refused
  /\ view.answer.replayCount = 1
  /\ view.nextsSaving >= 2
  /\ view.pending # {}

\* C38: at most one auto-play timer is pending at any time.
CexC38 == Cardinality(view.pending) <= 1

\* C39: once disconnectedCallback has run no timer is pending, none is set
\* later and currentIndex is not advanced again.
CexC39 ==
  /\ [](view.phase = "disconnected" => view.pending = {})
  /\ [][view.phase = "disconnected" =>
         (view'.nextTimer = view.nextTimer /\ view'.currentIndex = view.currentIndex)]_vars

\* C40: handleNext calls progressToNextStage only when currentIndex has
\* reached the number of messages, and once for each time the last message is
\* reached: never more calls than times reached, also when two invocations
\* of handleNext overlap.
CexC40 ==
  /\ [][view'.progressCalls > view.progressCalls => isComplete(view')]_vars
  /\ [](view.progressCalls <= view.reached)

\* progressToNextStage is called by handleNext only at the last message
ProgressOnlyWhenComplete ==
  [][view'.progressCalls > view.progressCalls =>
       (isComplete(view) /\ isComplete(view') /\ view.nextsSaving > 0)]_vars

(***************************************************************************)
(* Properties of the enumeration (checked under SpecEnum).                 *)
(***************************************************************************)
\* the identity key of a spec: behaviour name, group size, scenario
IdentityKey(spec) == <<spec.behavior, spec.groupSize, Field(spec, "scenario")>>

\* the inner loop of the enumeration: the scenarios, or else the group sizes
InnerLength ==
  IF Len(config.scenarios) > 0 THEN Len(config.scenarios) ELSE Len(GroupSizesOf(config))

\* C20: once enumerated, there are |behaviors| x |group sizes| specs, or
\* |behaviors| x |scenarios| in scenario mode (none after a filter error); no
\* two specs share the identity key; and the spec at position n has the
\* behaviour (n - 1) div inner + 1 and the group size or scenario
\* (n - 1) mod inner + 1: behaviours outer, sizes or scenarios inner.
ThmC20 ==
  pc \in {"loop", "returned"} =>
    LET fb == FilterBehaviors(config) IN
      /\ N = (IF fb.ok THEN Len(fb.behaviors) * InnerLength ELSE 0)
      /\ \A a, b \in 1..N :
           a # b => IdentityKey(allExperiments[a]) # IdentityKey(allExperiments[b])
      /\ \A n \in 1..N :
           LET outer == ((n - 1) \div InnerLength) + 1
               inner == ((n - 1) % InnerLength) + 1
           IN /\ allExperiments[n].behavior = fb.behaviors[outer]
              /\ IF Len(config.scenarios) > 0
                 THEN /\ allExperiments[n].scenario = config.scenarios[inner]
                      /\ allExperiments[n].groupSize =
                           config.scenarios[inner].participant_count
                 ELSE /\ "scenario" \notin DOMAIN allExperiments[n]
                      /\ allExperiments[n].groupSize = GroupSizesOf(config)[inner]

\* two behaviours times two scenarios of one participant count
WitC20 ==
  /\ pc = "loop"
  /\ config.scenarios = <<Pair, PairAgain>>
  /\ N = 2 * NumBehaviors
  /\ allExperiments[1].behavior = allExperiments[2].behavior
  /\ allExperiments[2].scenario = PairAgain
  /\ allExperiments[3].behavior # allExperiments[1].behavior


(***************************************************************************)
(* Properties of the export and the dialogue (checked under SpecExport).   *)
(***************************************************************************)
\* the ids of the messages the body holds for a cohort other than cohortId
ForeignIds(data, cohortId) ==
  IF "cohortMap" \notin DOMAIN data THEN {}
  ELSE {data.cohortMap[c].chatMap[x][2][y].id :
          <<c, x, y>> \in
            {<<c, x, y>> \in (DOMAIN data.cohortMap \ {cohortId}) \X (1..2) \X (1..2) :
               /\ "chatMap" \in DOMAIN data.cohortMap[c]
               /\ x <= Len(data.cohortMap[c].chatMap)
               /\ y <= Len(data.cohortMap[c].chatMap[x][2])}}

\* the body has a chat map for the cohort
HasChatMap(data, cohortId) ==
  /\ "cohortMap" \in DOMAIN data
  /\ cohortId \in DOMAIN data.cohortMap
  /\ "chatMap" \in DOMAIN data.cohortMap[cohortId]

\* C24: the result of a unit whose export request was answered holds one
\* conversation record per thread of the chat map of the unit's own cohort, in
\* the order of the map, each with the unit's ids, the thread's stage id and
\* the thread's messages in the order received; it holds no conversation when
\* the body has no entry or no chat map for that cohort; and no message of
\* another cohort is in it.
ThmC24 ==
  exportBody.answered =>
    LET n == exportBody.unit
        data == exportBody.body
        cohortId == CohortId(n)
        conversations == results[n].conversations
    IN /\ n \in 1..Len(results)
       /\ results[n].status = "success"
       /\ ~HasChatMap(data, cohortId) => conversations = <<>>
       /\ HasChatMap(data, cohortId) =>
            LET chatMap == data.cohortMap[cohortId].chatMap IN
              /\ Len(conversations) = Len(chatMap)
              /\ \A x \in 1..Len(chatMap) :
                   /\ conversations[x].stageId = chatMap[x][1]
                   /\ Len(conversations[x].messages) = Len(chatMap[x][2])
                   /\ \A y \in 1..Len(chatMap[x][2]) :
                        /\ conversations[x].messages[y].id = chatMap[x][2][y].id
                        /\ conversations[x].messages[y].text = chatMap[x][2][y].message
       /\ \A x \in 1..Len(conversations) :
            /\ conversations[x].experimentId = ExpId(n)
            /\ conversations[x].cohortId = cohortId
            /\ \A y \in 1..Len(conversations[x].messages) :
                 conversations[x].messages[y].id \notin ForeignIds(data, cohortId)

\* the second unit's export was answered with two threads of its cohort and a
\* thread of another cohort, and its result holds the two
WitC24 ==
  /\ exportBody.answered
  /\ exportBody.unit = 2
  /\ HasChatMap(exportBody.body, CohortId(2))
  /\ exportBody.body.cohortMap[CohortId(2)].chatMap = <<ThreadB, ThreadA>>
  /\ OtherCohort \in DOMAIN exportBody.body.cohortMap
  /\ Len(results) = 2
  /\ Len(results[2].conversations) = 2

IsMessageLine(line) == line.kind = "message"

\* the positions of the header lines of a dialogue, in order
HeaderPositions(d) ==
  LET At(x) == d[x].kind = "header" IN SelectSeq([x \in 1..Len(d) |-> x], At)

\* the results a header is due for: status success and a conversation record
HasDialogue(r) == r.status = "success" /\ r.conversations # <<>>

\* the positions of the results a header is due for, in order
DuePositions(rs) ==
  LET At(x) == HasDialogue(rs[x]) IN SelectSeq([x \in 1..Len(rs) |-> x], At)

\* the texts of the messages of a result, conversation by conversation
TextsOf(r) ==
  LET Texts(convo) == [y \in 1..Len(convo.messages) |-> convo.messages[y].text]
  IN FlatMap(Texts, r.conversations)

\* C25: the dialogue written at the checkpoint of the window holds one header
\* per result with status success and one conversation record or more, in the
\* order of the results, each with the behaviour name in upper case, the group
\* size and, on the next line, the experiment id; between a header and the
\* next one there is one message line per message of that result, in order;
\* a dialogue without such results is empty.
ThmC25 ==
  (writes > 0 /\ pc \in {"loop", "returned", "mainwrite", "saved"}) =>
    LET d == dialogueFile
        heads == HeaderPositions(d)
        due == DuePositions(results)
        EndOf(k) == IF k < Len(heads) THEN heads[k + 1] - 1 ELSE Len(d)
    IN /\ Len(heads) = Len(due)
       /\ due = <<>> => d = <<>>
       /\ d # <<>> => heads[1] = 1
       /\ \A k \in 1..Len(heads) :
            LET r == results[due[k]]
                block == SubSeq(d, heads[k], EndOf(k))
                lines == SelectSeq(block, IsMessageLine)
            IN /\ d[heads[k]].behavior = ToUpperCase(r.facilitatorBehavior)
               /\ d[heads[k]].groupSize = r.groupSize
               /\ d[heads[k] + 1] = [kind |-> "experimentId", id |-> r.experimentId]
               /\ Len(lines) = Len(TextsOf(r))
               /\ \A y \in 1..Len(lines) : lines[y].text = TextsOf(r)[y]
               /\ Len(block) = Len(lines) + 5

\* a window whose first unit failed, with no output, and whose second unit is
\* in the dialogue with its three messages
WitC25 ==
  /\ pc = "saved"
  /\ Len(results) = 2
  /\ results[1].status = "error"
  /\ HasDialogue(results[2])
  /\ Len(TextsOf(results[2])) = 3
  /\ Len(dialogueFile) = 8
  /\ dialogueFile[1].kind = "header"
  /\ dialogueFile[1].groupSize = 2

(***************************************************************************)
(* Properties of the sequential script (checked under SpecScript).         *)
(***************************************************************************)
\* C27: whenever the script starts to create an experiment other than the
\* first, it has waited one second since the creation before ended, whether
\* that one succeeded or failed.
CexC27 ==
  (script.pc = "creating" /\ script.n > 1) => script.gap >= ScriptDelayMs

(***************************************************************************)
(* Properties of waitForExperimentCompletion (checked under SpecPoller).   *)
(***************************************************************************)
\* C7 as claimed: when no sample has failed, once the last 15 samples reported
\* one positive count the poller has returned true (so it has after the samples
\* 0, 0 and 15 times 3).
CexC7 ==
  (~everFailed /\ trailRun >= StabilityThreshold /\ trailVal > 0) => p_pc = "true"

\* C7 as amended: once the trailing run of equal positive successful samples is
\* 16 long (15 samples each equal to its predecessor), the poller has returned
\* true; a run of 15 leaves the stability counter at 14.
ThmC7 ==
  /\ (trailRun >= StabilityThreshold + 1 /\ trailVal > 0) => p_pc = "true"
  /\ (trailRun = StabilityThreshold /\ trailVal > 0) =>
       (stableCount = StabilityThreshold - 1 /\ p_pc # "true")

\* the samples 0, 0 followed by 16 samples of 3
WitC7 ==
  /\ p_pc = "true"
  /\ nSamples = StabilityThreshold + 3
  /\ trailRun = StabilityThreshold + 1
  /\ trailVal = 3
  /\ zerosBefore
  /\ ~everFailed

\* C8: the poller has returned true only after at least 15 consecutive
\* successful samples with one positive count; a successful sample that differs
\* from its predecessor leaves the stability counter at 0; and while every
\* sample has reported 0 the counter stays 0 and true is not returned.
ThmC8 ==
  /\ p_pc = "true" => (trailRun >= StabilityThreshold /\ trailVal > 0)
  /\ trailRun = 1 => stableCount = 0
  /\ ~everPositive => (stableCount = 0 /\ p_pc # "true")
  /\ stableCount > 0 => (trailVal > 0 /\ trailRun > stableCount)

\* true returned after a run was broken by a different positive count
WitC8 ==
  /\ p_pc = "true"
  /\ nSamples > trailRun
  /\ ~zerosBefore

\* C9: the poller never rejects.
CexC9 == p_pc # "rejected"

\* C10: false is returned only once maxWait has elapsed, it is returned at the
\* first loop test after that, and while no successful sample has equalled its
\* predecessor true is not returned.
ThmC10 ==
  /\ [](p_pc = "false" => elapsed >= maxWaitTime)
  /\ [](~everRepeat => (p_pc # "true" /\ stableCount = 0))
  /\ [][(p_pc = "check" /\ elapsed >= maxWaitTime) => p_pc' = "false"]_vars
  /\ [][p_pc' = "false" => (p_pc \in {"check", "false"} /\ elapsed' >= maxWaitTime)]_vars

\* an alternating sequence of successful samples that ended in the timeout
WitC10 ==
  /\ p_pc = "false"
  /\ ~everRepeat
  /\ ~everFailed
  /\ nSamples >= MaxPolls \div 2
  /\ everPositive

\* a sample fails: the fetch throws or the response is not ok
FailedSample == p_pc = "fetch" /\ p_pc' = "sleep" /\ nSamples' = nSamples

\* C32: a failed sample leaves the stability counter and the last observed
\* count as they are, and so do the sleep and the loop test after it: whatever
\* samples failed in between, the counter is the number of successful samples
\* that equalled their predecessor in the trailing run of one positive count,
\* and the last observed count is that of the last successful sample.
ThmC32 ==
  /\ [][FailedSample =>
         (stableCount' = stableCount /\ lastMessageCount' = lastMessageCount)]_vars
  /\ [][nSamples' = nSamples =>
         (stableCount' = stableCount /\ lastMessageCount' = lastMessageCount)]_vars
  /\ []((nSamples > 0 /\ trailVal > 0) => stableCount = trailRun - 1)
  /\ [](nSamples > 0 => lastMessageCount = trailVal)

\* true returned after 16 successful samples of 3, one sample having failed
\* while the stability counter was at 7
WitC32 ==
  /\ p_pc = "true"
  /\ failedAt = 7
  /\ nSamples = StabilityThreshold + 1
  /\ trailRun = StabilityThreshold + 1
  /\ trailVal = 3

====
